---- MODULE Spec2Model ----
(***************************************************************************)
(* Model of the semantic-search service of bq-ai-patent-analyst            *)
(* (src/app/services/semantic_search.py): SemanticSearchService with an    *)
(* injected warehouse client, its sanitizer, its SQL builders and its four *)
(* search operations; of the warehouse evaluating the search queries; of   *)
(* the result formatter (src/app/core/app_controller.py); and of the       *)
(* client cache (src/app/utils/gcp_auth.py).                               *)
(*                                                                         *)
(* Python values are records [t |-> <type name>, v |-> <payload>].  A str  *)
(* whose characters the code inspects (user input) carries a sequence of   *)
(* one-character strings; text the code only formats and hands on (SQL,    *)
(* messages) is a TLA+ string built with \o.  A float is carried as an     *)
(* integer number of thousandths.                                           *)
(***************************************************************************)
EXTENDS FiniteSets, Integers, Sequences, TLC

VARIABLES
    client,      \* SemanticSearchService.client: None or the injected client
    pc,          \* the caller's position: "idle" or "returned"
    call,        \* the operation in progress or just returned, with its arguments
    response,    \* what the client did when it was asked (NotAsked when it was not)
    submitted,   \* the SQL texts handed to client.query during the call, in order
    outcome,     \* how the call ended: a returned tuple or a raised exception
    sanIn,       \* sanitizer development: the value first given to sanitize_for_sql
    sanHist,     \* sanitizer development: sanIn followed by the successive results
    index,       \* the warehouse's search index: component rows, each with its
                 \* cosine distance to the embedding of the query being searched
    formatIn,    \* the table a caller hands to _format_search_results
    formatted,   \* None, or the table as handed over and the display table made
    cached,      \* gcp_auth._CACHED_CLIENT
    sess,        \* per session: where its get_bigquery_client call stands
    constructed, \* number of BigQuery clients constructed so far
    calls,       \* number of get_bigquery_client calls started so far
    wasReset,    \* reset_bigquery_client_cache has been called
    anyUncached, \* some call was made with use_cache=False
    environ,     \* os.environ: APP_ENV and GCP_SA_KEY, None when unset
    secrets,     \* st.secrets: None when unavailable, else a mapping
    saCall,      \* None, or the argument and the result of get_gcp_sa_json
    details,     \* None, or a grouped row and the detail search made for its URI
    controller,  \* None, or the AppController's client and search service
    probed,      \* history: the connectivity probes the controller has made
    state,       \* the AppState held by the state manager
    latest,      \* history: the state manager's calls, the latest last
    lastRun,     \* None, or what the latest DashboardEngine.run saw and did
    auth,        \* a GCPAuth object used on its own
    authLog      \* history: the latest call on auth and the clients built

serviceVars == <<client, pc, call, response, submitted, outcome>>

sanVars == <<sanIn, sanHist>>

formatVars == <<formatIn, formatted>>

cacheVars == <<cached, sess, constructed, calls, wasReset, anyUncached>>

secretVars == <<environ, secrets, saCall>>

(* the state of the developments that follow the search, the formatter and *)
(* the cache                                                               *)
controllerVars == <<controller, probed>>

stateVars == <<state, latest, lastRun>>

authVars == <<auth, authLog>>

laterVars == <<controllerVars, stateVars, authVars>>

otherVars == <<secretVars, details, laterVars>>

vars == <<serviceVars, sanVars, index, formatVars, cacheVars, otherVars>>

----------------------------------------------------------------------------
(* Bounds of the model *)

MaxLen == 2       \* longest query string drawn as input
MaxUriLen == 1    \* longest URI string drawn as input
MaxRows == 3      \* most rows in a table the warehouse returns
MaxSanLen == 3    \* longest string given to the sanitizer on its own
MaxApps == 3      \* most successive applications of sanitize_for_sql
MaxIndexRows == 3 \* most component rows in the search index
NumSessions == 2  \* sessions calling get_bigquery_client concurrently
MaxCalls == 3     \* most get_bigquery_client calls started in a behaviour
MaxUiLen == 1     \* longest text typed into the search box
MaxAuthClients == 4  \* most clients one GCPAuth object builds in a behaviour

(* Program constants *)

DefaultDistanceThreshold == 800  \* distance_threshold: float = 0.8, in thousandths
DefaultTopK == 70                \* top_k: int = 70
DefaultPatentsLimit == 20        \* patents_limit: int = 20
DefaultPerUriLimit == 5          \* per_uri_limit: int = 5

----------------------------------------------------------------------------
(* Python values *)

None == [t |-> "NoneType", v |-> <<>>]
PyStr(chars) == [t |-> "str", v |-> chars]
PyInt(n) == [t |-> "int", v |-> n]
PyFloat(h) == [t |-> "float", v |-> h]
Text(s) == [t |-> "text", v |-> s]
DataFrame(rows) == [t |-> "DataFrame", v |-> rows]
BigQueryClient == [t |-> "Client", v |-> <<>>]

Chars == {"a", "'", "\\", " "}

StringsUpTo(n) == UNION {[1..k -> Chars] : k \in 0..n}

NonStrings == {None, PyInt(0), PyInt(7)}

RawInputs == {PyStr(s) : s \in StringsUpTo(MaxLen)} \cup NonStrings

UriInputs == {PyStr(s) : s \in StringsUpTo(MaxUriLen)} \cup NonStrings

RECURSIVE Str(_)
Str(s) == IF s = <<>> THEN "" ELSE Head(s) \o Str(Tail(s))

(* repr of a float given in thousandths, as an f-string prints it *)
FormatFloat(h) ==
    LET a == IF h < 0 THEN -h ELSE h
        whole == a \div 1000
        frac == a % 1000
        digits == IF frac % 100 = 0 THEN ToString(frac \div 100)
                  ELSE IF frac % 10 = 0
                  THEN (IF frac < 100 THEN "0" ELSE "") \o ToString(frac \div 10)
                  ELSE (IF frac < 10 THEN "00" ELSE IF frac < 100 THEN "0" ELSE "")
                       \o ToString(frac)
    IN  (IF h < 0 THEN "-" ELSE "") \o ToString(whole) \o "." \o digits

(* format(x, "") as an f-string placeholder applies it *)
Format(x) ==
    CASE x.t = "str" -> Str(x.v)
      [] x.t = "text" -> x.v
      [] x.t = "NoneType" -> "None"
      [] x.t = "int" -> ToString(x.v)
      [] x.t = "float" -> FormatFloat(x.v)

(* bool(x); a DataFrame has no truth value and is handled where it is tested *)
Truthy(x) ==
    CASE x.t = "str" -> x.v # <<>>
      [] x.t = "text" -> x.v # ""
      [] x.t = "NoneType" -> FALSE
      [] x.t = "int" -> x.v # 0
      [] x.t = "float" -> x.v # 0
      [] x.t = "Client" -> TRUE
      [] x.t = "SemanticSearchService" -> TRUE
      [] x.t = "dict" -> DOMAIN x.v # {}

----------------------------------------------------------------------------
(* SearchConfig and the sanitizer *)

config ==
    [project_id |-> "proj",
     dataset_id |-> "patent_analysis",
     embedding_model |-> "embedding_model",
     classification_model |-> "gemini_vision_analyzer",
     search_index |-> "component_search_index"]

(* Mutant: only the first quote is escaped, as str.replace(old, new, 1) *)
RECURSIVE ReplaceFirst(_)
ReplaceFirst(s) ==
    IF s = <<>> THEN <<>>
    ELSE IF Head(s) = "'" THEN <<"\\", "'">> \o Tail(s)
    ELSE <<Head(s)>> \o ReplaceFirst(Tail(s))

(* Mutant: a quote that already follows a backslash is left alone *)
RECURSIVE ReplaceUnescaped(_)
ReplaceUnescaped(s) ==
    IF s = <<>> THEN <<>>
    ELSE IF Len(s) >= 2 /\ s[1] = "\\" /\ s[2] = "'"
    THEN <<"\\", "'">> \o ReplaceUnescaped(Tail(Tail(s)))
    ELSE (IF Head(s) = "'" THEN <<"\\", "'">> ELSE <<Head(s)>>)
         \o ReplaceUnescaped(Tail(s))

(* str.replace("'", "\\'") on a sequence of characters *)
RECURSIVE Replace(_)
Replace(s) ==
    IF s = <<>> THEN <<>>
    ELSE (IF Head(s) = "'" THEN <<"\\", "'">> ELSE <<Head(s)>>) \o Replace(Tail(s))

(* Mutant: a non-string is coerced with str() instead of rejected *)
sanitize_coercing(query) ==
    IF query.t = "str" THEN PyStr(Replace(query.v))
    ELSE IF query.t = "NoneType" THEN PyStr(<<"N", "o", "n", "e">>)
    ELSE PyStr(<<ToString(query.v)>>)

sanitize_for_sql(query) ==
    IF query.t # "str" THEN PyStr(<<>>) ELSE PyStr(Replace(query.v))

----------------------------------------------------------------------------
(* The SQL builders.  The text is the source's template with each run of  *)
(* white space written as one blank.                                      *)

(* The SQL identifier quote U+0060, which a TLA+ string cannot carry, is  *)
(* written as the two characters below.                                   *)
BackQuote == "^q"

Table(name) ==
    BackQuote \o config.project_id \o "." \o config.dataset_id \o "." \o name
    \o BackQuote

search_results_cte(search_query, top_k) ==
    "WITH search_results AS ( SELECT base.uri, base.component_name, "
    \o "base.component_function, distance FROM VECTOR_SEARCH( TABLE "
    \o Table(config.search_index)
    \o ", 'combined_vector', ( SELECT ml_generate_embedding_result FROM "
    \o "ML.GENERATE_EMBEDDING( MODEL " \o Table(config.embedding_model)
    \o ", ( SELECT CONCAT('Represent this technical patent component for "
    \o "semantic search: ', '" \o Format(search_query) \o "') AS content ) ) ), "
    \o "top_k => " \o Format(top_k) \o ", distance_type => 'COSINE' ) ) "

build_vector_search_query(search_query, distance_threshold, top_k) ==
    search_results_cte(search_query, top_k)
    \o "SELECT * FROM search_results WHERE distance < "
    \o Format(distance_threshold) \o ";"

build_grouped_search_query(search_query, distance_threshold, top_k, patents_limit, per_uri_limit) ==
    search_results_cte(search_query, top_k)
    \o "SELECT uri, MIN(distance) AS best_distance, COUNT(1) AS hit_count, "
    \o "ARRAY_AGG(STRUCT(component_name, component_function, distance) "
    \o "ORDER BY distance ASC LIMIT " \o Format(per_uri_limit)
    \o ") AS top_components FROM search_results WHERE distance < "
    \o Format(distance_threshold)
    \o " GROUP BY uri ORDER BY best_distance ASC LIMIT " \o Format(patents_limit)

build_detail_query(search_query, uri, distance_threshold, top_k) ==
    search_results_cte(search_query, top_k)
    \o "SELECT uri, component_name, component_function, distance "
    \o "FROM search_results WHERE distance < " \o Format(distance_threshold)
    \o " AND uri = '" \o Format(uri) \o "' ORDER BY distance ASC"

build_classification_query(search_query) ==
    "SELECT ml_generate_text_llm_result FROM ML.GENERATE_TEXT( MODEL "
    \o Table(config.classification_model)
    \o ", (SELECT ''' Is the following user query related to a technical, "
    \o "scientific, or engineering topic? Answer with only 'Yes' or 'No'. Query: "
    \o Format(search_query)
    \o " ''' AS prompt), STRUCT( 0.0 AS temperature, TRUE AS flatten_json_output, "
    \o "1024 AS max_output_tokens ) )"

----------------------------------------------------------------------------
(* The injected client.  Asked once, it raises in query(), raises in      *)
(* to_dataframe(), or returns a table.                                    *)

ExcTexts == {"timeout", ""}

FlatRows ==
    {[uri |-> "gs://p/a.pdf", component_name |-> "valve",
      component_function |-> "regulates flow", distance |-> 200],
     [uri |-> "gs://p/b.pdf", component_name |-> "rotor",
      component_function |-> "spins", distance |-> 550]}

GroupedRows ==
    {[uri |-> "gs://p/a.pdf", best_distance |-> 200, hit_count |-> 1,
      top_components |-> <<[component_name |-> "valve",
                            component_function |-> "regulates flow",
                            distance |-> 200]>>],
     [uri |-> "gs://p/b.pdf", best_distance |-> 550, hit_count |-> 1,
      top_components |-> <<[component_name |-> "rotor",
                            component_function |-> "spins",
                            distance |-> 550]>>]}

TablesOf(rows) == UNION {[1..k -> rows] : k \in 0..MaxRows}

NotAsked == [kind |-> "not_asked", text |-> "", rows |-> <<>>]

Raises(kind, text) == [kind |-> kind, text |-> text, rows |-> <<>>]

Returns(rows) == [kind |-> "table", text |-> "", rows |-> rows]

ResponsesOf(rows) ==
    {Raises(k, T) : k \in {"raise_query", "raise_to_dataframe"}, T \in ExcTexts}
    \cup {Returns(tbl) : tbl \in TablesOf(rows)}

(* How a call ends *)

Return(value) == [kind |-> "return", value |-> value, exc |-> "", text |-> ""]

Raise(exc, text) == [kind |-> "raise", value |-> <<>>, exc |-> exc, text |-> text]

(* What an operation did: how it ended and the SQL it handed to client.query *)
Did(out, sqls) == [out |-> out, submitted |-> sqls]

(* Mutant: client.query(sql) is called before the try block is entered *)
query_outside_try(resp, prefix) ==
    IF resp.kind = "table"
    THEN Return(<<DataFrame(resp.rows), None>>)
    ELSE IF resp.kind = "raise_query"
    THEN Raise("Exception", resp.text)
    ELSE Return(<<None, Text(prefix \o resp.text)>>)

(* Mutant: a table without rows is reported as a failure *)
query_to_dataframe_rejects_empty(resp, prefix) ==
    IF resp.kind = "table" /\ resp.rows # <<>>
    THEN Return(<<DataFrame(resp.rows), None>>)
    ELSE Return(<<None, Text(prefix \o resp.text)>>)

(* try: df = self.client.query(sql).to_dataframe(); return df, None       *)
(* except Exception as e: return None, f"<prefix>{str(e)}"                *)
query_to_dataframe(resp, prefix) ==
    IF resp.kind = "table"
    THEN Return(<<DataFrame(resp.rows), None>>)
    ELSE Return(<<None, Text(prefix \o resp.text)>>)

----------------------------------------------------------------------------
(* The four operations of SemanticSearchService.  Each takes the service's *)
(* client and the response the client gives if it is asked, and yields how *)
(* the call ends together with the SQL it submitted.                       *)

ClientNotAvailable == Text("BigQuery client not available")

(* Mutant: a failed query is submitted a second time before giving up *)
perform_vector_search_retry(cl, resp, search_query, distance_threshold, top_k) ==
    LET sql == build_vector_search_query(search_query, distance_threshold, top_k)
    IN  IF ~Truthy(cl)
        THEN Did(Return(<<None, ClientNotAvailable>>), <<>>)
        ELSE Did(query_to_dataframe(resp, "Vector search failed: "),
                 IF resp.kind = "table" THEN <<sql>> ELSE <<sql, sql>>)

perform_vector_search(cl, resp, search_query, distance_threshold, top_k) ==
    IF ~Truthy(cl)
    THEN Did(Return(<<None, ClientNotAvailable>>), <<>>)
    ELSE Did(query_to_dataframe(resp, "Vector search failed: "),
             <<build_vector_search_query(search_query, distance_threshold, top_k)>>)

(* Mutant: the query is validated before the client is looked at *)
perform_grouped_search_validate_first(cl, resp, sanitized_query, distance_threshold, top_k, patents_limit, per_uri_limit) ==
    IF ~Truthy(sanitized_query)
    THEN Did(Return(<<None, Text("Please enter a valid search query.")>>), <<>>)
    ELSE IF ~Truthy(cl)
    THEN Did(Return(<<None, ClientNotAvailable>>), <<>>)
    ELSE Did(query_to_dataframe(resp, "Grouped search failed: "),
             <<build_grouped_search_query(sanitized_query, distance_threshold,
                                          top_k, patents_limit, per_uri_limit)>>)

perform_grouped_search(cl, resp, sanitized_query, distance_threshold, top_k, patents_limit, per_uri_limit) ==
    IF ~Truthy(cl)
    THEN Did(Return(<<None, ClientNotAvailable>>), <<>>)
    ELSE IF ~Truthy(sanitized_query)
    THEN Did(Return(<<None, Text("Please enter a valid search query.")>>), <<>>)
    ELSE Did(query_to_dataframe(resp, "Grouped search failed: "),
             <<build_grouped_search_query(sanitized_query, distance_threshold,
                                          top_k, patents_limit, per_uri_limit)>>)

(* Mutant: the call is rejected only when both inputs are empty *)
get_components_for_uri_both(cl, resp, sanitized_query, sanitized_uri, distance_threshold, top_k) ==
    IF ~Truthy(cl)
    THEN Did(Return(<<None, ClientNotAvailable>>), <<>>)
    ELSE IF ~Truthy(sanitized_query) /\ ~Truthy(sanitized_uri)
    THEN Did(Return(<<None, Text("Invalid query or URI.")>>), <<>>)
    ELSE Did(query_to_dataframe(resp, "Detail fetch failed: "),
             <<build_detail_query(sanitized_query, sanitized_uri,
                                  distance_threshold, top_k)>>)

get_components_for_uri(cl, resp, sanitized_query, sanitized_uri, distance_threshold, top_k) ==
    IF ~Truthy(cl)
    THEN Did(Return(<<None, ClientNotAvailable>>), <<>>)
    ELSE IF ~Truthy(sanitized_query) \/ ~Truthy(sanitized_uri)
    THEN Did(Return(<<None, Text("Invalid query or URI.")>>), <<>>)
    ELSE Did(query_to_dataframe(resp, "Detail fetch failed: "),
             <<build_detail_query(sanitized_query, sanitized_uri,
                                  distance_threshold, top_k)>>)

(* DataFrame.empty *)
empty(df) == df.v = <<>>

(* return True, f"No results found for ...", results_df or pd.DataFrame()  *)
(* `x or y` takes bool(x); bool() of a DataFrame, empty or not, raises     *)
(* ValueError.                                                             *)
no_results_return(raw_query, results_df) ==
    IF results_df.t = "DataFrame"
    THEN Raise("ValueError",
               "The truth value of a DataFrame is ambiguous. "
               \o "Use a.empty, a.bool(), a.item(), a.any() or a.all().")
    ELSE Return(<<TRUE,
                  Text("No results found for '" \o Format(raw_query)
                       \o "'. Try a different query."),
                  IF Truthy(results_df) THEN results_df ELSE DataFrame(<<>>)>>)

(* Mutant: the message embeds the sanitized query instead of the raw one *)
found_return_sanitized(raw_query, results_df) ==
    Return(<<TRUE,
             Text("Found " \o ToString(Len(results_df.v)) \o " results for '"
                  \o Format(sanitize_for_sql(raw_query)) \o "'."),
             results_df>>)

(* return True, f"Found {len(results_df)} results for '{raw_query}'.", results_df *)
found_return(raw_query, results_df) ==
    Return(<<TRUE,
             Text("Found " \o ToString(Len(results_df.v)) \o " results for '"
                  \o Format(raw_query) \o "'."),
             results_df>>)

(* "yes" in row.ml_generate_text_llm_result.strip().lower() *)
says_yes(answer) == answer \in {"Yes", "yes", " YES ", "Yes, it is."}

(* The classifier, asked through the client.  The rows are read in order:  *)
(* the first that says yes ends the loop, a row without the result column  *)
(* raises AttributeError, which the except clause reports like any failure *)
is_query_technical(cl, resp, search_query) ==
    LET sql == build_classification_query(search_query)
        rows == resp.rows
        bad == {i \in DOMAIN rows : "ml_generate_text_llm_result" \notin DOMAIN rows[i]}
        yes == {i \in DOMAIN rows \ bad : says_yes(rows[i].ml_generate_text_llm_result)}
    IN  IF ~Truthy(cl)
        THEN Did(Return(<<FALSE, ClientNotAvailable>>), <<>>)
        ELSE IF resp.kind # "table"
        THEN Did(Return(<<FALSE, Text("Error during query classification: "
                                       \o resp.text)>>), <<sql>>)
        ELSE IF \E i \in bad : \A j \in yes : i < j
        THEN Did(Return(<<FALSE, Text("Error during query classification: "
                                       \o "ml_generate_text_llm_result")>>), <<sql>>)
        ELSE Did(Return(<<yes # {}, None>>), <<sql>>)

(* Mutant: step 2, the classification, is carried out unless skipped *)
run_semantic_search_classifying(cl, resp, raw_query, distance_threshold, top_k, skip_classification) ==
    LET sanitized_query == sanitize_for_sql(raw_query)
        c == is_query_technical(cl, resp, sanitized_query)
        r == perform_vector_search(cl, resp, sanitized_query, distance_threshold, top_k)
        results_df == r.out.value[1]
        error == r.out.value[2]
    IN  IF ~Truthy(sanitized_query)
        THEN Did(Return(<<FALSE, Text("Please enter a valid search query."), None>>),
                 <<>>)
        ELSE IF ~skip_classification /\ Truthy(c.out.value[2])
        THEN Did(Return(<<FALSE, Text("Classification failed: "
                                       \o Format(c.out.value[2])), None>>),
                 c.submitted)
        ELSE IF ~skip_classification /\ ~c.out.value[1]
        THEN Did(Return(<<FALSE, Text("Query is not technical. Please enter a query "
                                       \o "related to a technical component or function."),
                          None>>),
                 c.submitted)
        ELSE LET sqls == IF skip_classification THEN r.submitted
                         ELSE c.submitted \o r.submitted
             IN  IF Truthy(error)
                 THEN Did(Return(<<FALSE, error, None>>), sqls)
                 ELSE IF results_df = None \/ empty(results_df)
                 THEN Did(no_results_return(raw_query, results_df), sqls)
                 ELSE Did(found_return(raw_query, results_df), sqls)

(* Mutant: a query of whitespace only is rejected like an empty one *)
run_semantic_search_rejecting_blank(cl, resp, raw_query, distance_threshold, top_k, skip_classification) ==
    LET sanitized_query == sanitize_for_sql(raw_query)
    IN  IF \A i \in DOMAIN sanitized_query.v : sanitized_query.v[i] = " "
        THEN Did(Return(<<FALSE, Text("Please enter a valid search query."), None>>),
                 <<>>)
        ELSE run_semantic_search_classifying(cl, resp, raw_query, distance_threshold,
                                             top_k, TRUE)

run_semantic_search(cl, resp, raw_query, distance_threshold, top_k, skip_classification) ==
    LET sanitized_query == sanitize_for_sql(raw_query)
    IN  IF ~Truthy(sanitized_query)
        THEN Did(Return(<<FALSE, Text("Please enter a valid search query."), None>>),
                 <<>>)
        ELSE LET r == perform_vector_search(cl, resp, sanitized_query,
                                            distance_threshold, top_k)
                 results_df == r.out.value[1]
                 error == r.out.value[2]
             IN  IF r.out.kind = "raise"
                 THEN r    \* an exception of the callee passes through
                 ELSE IF Truthy(error)
                 THEN Did(Return(<<FALSE, error, None>>), r.submitted)
                 ELSE IF results_df = None \/ empty(results_df)
                 THEN Did(no_results_return(raw_query, results_df), r.submitted)
                 ELSE Did(found_return(raw_query, results_df), r.submitted)

----------------------------------------------------------------------------
(* The parts of the state a development does not use stay as constructed *)

Sessions == 1..NumSessions

IdleSession == [pc |-> "idle", use_cache |-> TRUE, client |-> None, ret |-> None]

FormatterIdle ==
    /\ formatIn = None
    /\ formatted = None

CacheIdle ==
    /\ cached = None
    /\ sess = [s \in Sessions |-> IdleSession]
    /\ constructed = 0
    /\ calls = 0
    /\ wasReset = FALSE
    /\ anyUncached = FALSE

SecretsIdle ==
    /\ environ = [APP_ENV |-> None, GCP_SA_KEY |-> None]
    /\ secrets = None
    /\ saCall = None

NoProbe == [injected |-> FALSE, ok |-> FALSE, last |-> 0, last_ok |-> FALSE]

ControllerIdle ==
    /\ controller = None
    /\ probed = NoProbe

(* AppState(): the dataclass defaults *)
AppState(search_triggered, search_query, search_input) ==
    [search_triggered |-> search_triggered, search_query |-> search_query,
     search_input |-> search_input]

DefaultAppState == AppState(FALSE, PyStr(<<>>), PyStr(<<>>))

NoStateCall == [op |-> "none", query |-> None, called |-> "none"]

StateIdle ==
    /\ state = DefaultAppState
    /\ latest = NoStateCall
    /\ lastRun = None

(* GCPAuth.__init__ *)
GCPAuth == [credentials |-> None, client |-> None]

NoAuthCall ==
    [op |-> "none", failure |-> "none", ok |-> FALSE, value |-> None,
     before |-> GCPAuth, constructed |-> 0]

AuthIdle ==
    /\ auth = GCPAuth
    /\ authLog = NoAuthCall

LaterIdle == ControllerIdle /\ StateIdle /\ AuthIdle

OthersIdle ==
    /\ SecretsIdle
    /\ details = None
    /\ LaterIdle

----------------------------------------------------------------------------
(* The state machine: a caller that makes one call at a time on a service  *)
(* constructed with or without a client.                                   *)

Thresholds == {PyFloat(DefaultDistanceThreshold), PyFloat(0)}
TopKs == {PyInt(DefaultTopK), PyInt(1)}
PatentsLimits == {PyInt(DefaultPatentsLimit), PyInt(1)}
PerUriLimits == {PyInt(DefaultPerUriLimit), PyInt(1)}

NoCall ==
    [op |-> "none", query |-> None, uri |-> None, distance_threshold |-> None,
     top_k |-> None, patents_limit |-> None, per_uri_limit |-> None,
     skip_classification |-> FALSE, requested_uri |-> None]

NoOutcome == [kind |-> "none", value |-> <<>>, exc |-> "", text |-> ""]

(* The call is made and runs to its end *)
Finish(c, resp, r) ==
    /\ pc' = "returned"
    /\ call' = c
    /\ response' = IF r.submitted = <<>> THEN NotAsked ELSE resp
    /\ submitted' = r.submitted
    /\ outcome' = r.out
    /\ UNCHANGED <<client, sanVars, index, formatVars, cacheVars, otherVars>>

RunSemanticSearch ==
    /\ pc = "idle"
    /\ \E raw_query \in RawInputs, th \in Thresholds, k \in TopKs,
          skip \in BOOLEAN, resp \in ResponsesOf(FlatRows) :
          Finish([NoCall EXCEPT !.op = "run_semantic_search", !.query = raw_query,
                                !.distance_threshold = th, !.top_k = k,
                                !.skip_classification = skip],
                 resp,
                 run_semantic_search(client, resp, raw_query, th, k, skip))

PerformVectorSearch ==
    /\ pc = "idle"
    /\ \E q \in RawInputs, th \in Thresholds, k \in TopKs,
          resp \in ResponsesOf(FlatRows) :
          Finish([NoCall EXCEPT !.op = "perform_vector_search", !.query = q,
                                !.distance_threshold = th, !.top_k = k],
                 resp,
                 perform_vector_search(client, resp, q, th, k))

PerformGroupedSearch ==
    /\ pc = "idle"
    /\ \E q \in RawInputs, th \in Thresholds, k \in TopKs,
          pl \in PatentsLimits, pul \in PerUriLimits,
          resp \in ResponsesOf(GroupedRows) :
          Finish([NoCall EXCEPT !.op = "perform_grouped_search", !.query = q,
                                !.distance_threshold = th, !.top_k = k,
                                !.patents_limit = pl, !.per_uri_limit = pul],
                 resp,
                 perform_grouped_search(client, resp, q, th, k, pl, pul))

GetComponentsForUri ==
    /\ pc = "idle"
    /\ \E q \in RawInputs, u \in UriInputs, th \in Thresholds, k \in TopKs,
          resp \in ResponsesOf(FlatRows) :
          Finish([NoCall EXCEPT !.op = "get_components_for_uri", !.query = q,
                                !.uri = u, !.distance_threshold = th, !.top_k = k],
                 resp,
                 get_components_for_uri(client, resp, q, u, th, k))

(* The caller takes the outcome and is free to call again *)
CallerResumes ==
    /\ pc = "returned"
    /\ pc' = "idle"
    /\ call' = NoCall
    /\ response' = NotAsked
    /\ submitted' = <<>>
    /\ outcome' = NoOutcome
    /\ UNCHANGED <<client, sanVars, index, formatVars, cacheVars, otherVars>>

Init ==
    /\ client \in {None, BigQueryClient}
    /\ pc = "idle"
    /\ call = NoCall
    /\ response = NotAsked
    /\ submitted = <<>>
    /\ outcome = NoOutcome
    /\ sanIn = None
    /\ sanHist = <<>>
    /\ index = {}
    /\ FormatterIdle
    /\ CacheIdle
    /\ OthersIdle

Next ==
    \/ RunSemanticSearch
    \/ PerformVectorSearch
    \/ PerformGroupedSearch
    \/ GetComponentsForUri
    \/ CallerResumes

Spec == Init /\ [][Next]_vars

----------------------------------------------------------------------------
(* The sanitizer on its own: an input is drawn and sanitize_for_sql is     *)
(* applied to it, then to its own result, up to MaxApps times.             *)

SanInputs == {PyStr(s) : s \in StringsUpTo(MaxSanLen)} \cup NonStrings

Sanitize ==
    /\ sanHist # <<>>
    /\ Len(sanHist) <= MaxApps
    /\ sanHist' = Append(sanHist, sanitize_for_sql(sanHist[Len(sanHist)]))
    /\ UNCHANGED <<client, pc, call, response, submitted, outcome, sanIn, index, formatVars, cacheVars, otherVars>>

InitSanitize ==
    /\ client = None
    /\ pc = "idle"
    /\ call = NoCall
    /\ response = NotAsked
    /\ submitted = <<>>
    /\ outcome = NoOutcome
    /\ sanIn \in SanInputs
    /\ sanHist = <<sanIn>>
    /\ index = {}
    /\ FormatterIdle
    /\ CacheIdle
    /\ OthersIdle

NextSanitize == Sanitize

SpecSanitize == InitSanitize /\ [][NextSanitize]_vars

----------------------------------------------------------------------------
(* The warehouse executing the three search queries over its index.  The   *)
(* operators below give the tables the SQL text of the builders can yield: *)
(* where SQL leaves an order or a tie open, every choice is a result.      *)

Components ==
    {[uri |-> <<"a">>, component_name |-> "valve",
      component_function |-> "regulates flow"],
     [uri |-> <<"a">>, component_name |-> "rotor",
      component_function |-> "spins"],
     [uri |-> <<"'">>, component_name |-> "seal",
      component_function |-> "closes gap"],
     [uri |-> <<"\\", "\\">>, component_name |-> "gear",
      component_function |-> "transmits torque"]}

(* cosine distances, in thousandths, within [0, 2] *)
Distances == {0, 500, 1200}

IndexRow(c, d) ==
    [uri |-> c.uri, component_name |-> c.component_name,
     component_function |-> c.component_function, distance |-> d]

Indexes ==
    UNION {{{IndexRow(c, f[c]) : c \in cs} : f \in [cs -> Distances]} :
           cs \in {x \in SUBSET Components : Cardinality(x) <= MaxIndexRows}}

Min(a, b) == IF a <= b THEN a ELSE b

Range(seq) == {seq[i] : i \in DOMAIN seq}

(* every order in which the rows of a set can be listed *)
Orders(S) ==
    {f \in [1..Cardinality(S) -> S] : \A i, j \in DOMAIN f : i # j => f[i] # f[j]}

(* ORDER BY distance ASC *)
AscendingByDistance(seq) ==
    \A i, j \in DOMAIN seq : i < j => seq[i].distance <= seq[j].distance

(* The characters a SQL string literal denotes, read as the warehouse reads *)
(* them: backslash starts an escape, an unescaped quote ends the literal    *)
(* early, and either a bad escape or an early end is a syntax error.        *)
RECURSIVE sql_string_literal(_)
sql_string_literal(s) ==
    IF s = <<>> THEN [ok |-> TRUE, v |-> <<>>]
    ELSE IF Head(s) = "'" THEN [ok |-> FALSE, v |-> <<>>]
    ELSE IF Head(s) = "\\"
    THEN IF Len(s) < 2 \/ s[2] = " " THEN [ok |-> FALSE, v |-> <<>>]
         ELSE LET rest == sql_string_literal(Tail(Tail(s)))
                  c == IF s[2] = "a" THEN "BEL" ELSE s[2]
              IN  [ok |-> rest.ok, v |-> IF rest.ok THEN <<c>> \o rest.v ELSE <<>>]
    ELSE LET rest == sql_string_literal(Tail(s))
         IN  [ok |-> rest.ok, v |-> IF rest.ok THEN <<Head(s)>> \o rest.v ELSE <<>>]

SyntaxError == Raises("raise_query", "400 Syntax error")

(* Mutant: VECTOR_SEARCH without top_k, every row of the index a candidate *)
vector_search_unbounded(idx, top_k) == {idx}

(* VECTOR_SEARCH(..., top_k => k, distance_type => 'COSINE'): the k rows    *)
(* nearest to the query embedding                                          *)
vector_search(idx, top_k) ==
    {C \in SUBSET idx :
        /\ Cardinality(C) = Min(top_k, Cardinality(idx))
        /\ \A r \in C, o \in idx \ C : r.distance <= o.distance}

(* Mutant: the filter is distance <= {distance_threshold} *)
eval_vector_search_query_inclusive(idx, distance_threshold, top_k) ==
    UNION {Orders({r \in C : r.distance <= distance_threshold}) :
           C \in vector_search(idx, top_k)}

(* SELECT * FROM search_results WHERE distance < {distance_threshold} *)
eval_vector_search_query(idx, distance_threshold, top_k) ==
    UNION {Orders({r \in C : r.distance < distance_threshold}) :
           C \in vector_search(idx, top_k)}

(* SELECT uri, component_name, component_function, distance                *)
(* FROM search_results WHERE distance < {threshold} AND uri = '{uri}'      *)
(* ORDER BY distance ASC                                                   *)
eval_detail_query(idx, uri, distance_threshold, top_k) ==
    UNION {{t \in Orders({r \in C : r.distance < distance_threshold /\ r.uri = uri}) :
              AscendingByDistance(t)} :
           C \in vector_search(idx, top_k)}

(* STRUCT(component_name, component_function, distance) *)
ComponentStruct(r) ==
    [component_name |-> r.component_name,
     component_function |-> r.component_function, distance |-> r.distance]

(* Mutant: ARRAY_AGG(STRUCT(...) ORDER BY distance ASC), no LIMIT *)
array_agg_unlimited(hits, per_uri_limit) ==
    {[i \in 1..Cardinality(hits) |-> ComponentStruct(t[i])] :
       t \in {o \in Orders(hits) : AscendingByDistance(o)}}

(* ARRAY_AGG(STRUCT(...) ORDER BY distance ASC LIMIT {per_uri_limit}) *)
array_agg(hits, per_uri_limit) ==
    {[i \in 1..Min(per_uri_limit, Cardinality(hits)) |-> ComponentStruct(t[i])] :
       t \in {o \in Orders(hits) : AscendingByDistance(o)}}

SetMin(S) == CHOOSE m \in S : \A x \in S : m <= x

(* Mutant: best_distance is read off the end of the truncated array *)
group_rows_best_of_array(hits, uri, per_uri_limit) ==
    LET mine == {r \in hits : r.uri = uri}
    IN  {[uri |-> uri,
          best_distance |-> a[Len(a)].distance,
          hit_count |-> Cardinality(mine),
          top_components |-> a] : a \in array_agg(mine, per_uri_limit)}

(* the rows GROUP BY uri can give for one uri: MIN(distance), COUNT(1) and *)
(* the aggregated array                                                    *)
group_rows(hits, uri, per_uri_limit) ==
    LET mine == {r \in hits : r.uri = uri}
    IN  {[uri |-> uri,
          best_distance |-> SetMin({r.distance : r \in mine}),
          hit_count |-> Cardinality(mine),
          top_components |-> a] : a \in array_agg(mine, per_uri_limit)}

(* Mutant: GROUP BY uri LIMIT {patents_limit}, no ORDER BY *)
grouped_tables_unordered(hits, patents_limit, per_uri_limit) ==
    LET uris == {r.uri : r \in hits}
        rows == UNION {group_rows(hits, u, per_uri_limit) : u \in uris}
        n == Min(patents_limit, Cardinality(uris))
    IN  {t \in [1..n -> rows] : \A i, j \in 1..n : i # j => t[i].uri # t[j].uri}

(* ... FROM search_results WHERE distance < {threshold} GROUP BY uri       *)
(* ORDER BY best_distance ASC LIMIT {patents_limit}                        *)
grouped_tables(hits, patents_limit, per_uri_limit) ==
    LET uris == {r.uri : r \in hits}
        rows == UNION {group_rows(hits, u, per_uri_limit) : u \in uris}
        n == Min(patents_limit, Cardinality(uris))
    IN  {t \in [1..n -> rows] :
            /\ \A i, j \in 1..n : i # j => t[i].uri # t[j].uri
            /\ \A i, j \in 1..n : i < j => t[i].best_distance <= t[j].best_distance
            /\ \A i \in 1..n, r \in rows :
                  (\A j \in 1..n : t[j].uri # r.uri)
                  => t[i].best_distance <= r.best_distance}

eval_grouped_search_query(idx, distance_threshold, top_k, patents_limit, per_uri_limit) ==
    UNION {grouped_tables({r \in C : r.distance < distance_threshold},
                          patents_limit, per_uri_limit) :
           C \in vector_search(idx, top_k)}

(* client.query(sql).to_dataframe() on the warehouse: a malformed literal  *)
(* in the text fails the query, otherwise one of the tables comes back.    *)
warehouse(literals, tables) ==
    IF \E l \in literals : ~sql_string_literal(l.v).ok
    THEN {SyntaxError}
    ELSE {Returns(t) : t \in tables}

----------------------------------------------------------------------------
(* The service in front of the warehouse: the client's answer to a query   *)
(* is what the warehouse computes from the index.  Callers hand the        *)
(* perform_* operations sanitized text, as their docstrings require.       *)

SearchQueries == {PyStr(<<"a">>), PyStr(<<"'">>), PyStr(<<"\\">>)}
SearchUris == {PyStr(c.uri) : c \in Components} \cup {PyStr(<<"\\">>)}
SearchThresholds == {PyFloat(DefaultDistanceThreshold), PyFloat(500), PyFloat(0), PyFloat(-500)}
SearchTopKs == {PyInt(DefaultTopK), PyInt(2), PyInt(1)}
SearchPatentsLimits == {PyInt(DefaultPatentsLimit), PyInt(1)}
SearchPerUriLimits == {PyInt(DefaultPerUriLimit), PyInt(1)}

(* success, message, results_df = service.run_semantic_search(query, ...) *)
OrchestratedSearch ==
    /\ pc = "idle"
    /\ \E raw_query \in SearchQueries, th \in SearchThresholds, k \in SearchTopKs :
         \E resp \in warehouse({sanitize_for_sql(raw_query)},
                               eval_vector_search_query(index, th.v, k.v)) :
          Finish([NoCall EXCEPT !.op = "run_semantic_search", !.query = raw_query,
                                !.distance_threshold = th, !.top_k = k],
                 resp,
                 run_semantic_search(client, resp, raw_query, th, k, FALSE))

FlatSearch ==
    /\ pc = "idle"
    /\ \E raw_query \in SearchQueries, th \in SearchThresholds, k \in SearchTopKs :
         LET q == sanitize_for_sql(raw_query)
         IN  \E resp \in warehouse({q}, eval_vector_search_query(index, th.v, k.v)) :
               Finish([NoCall EXCEPT !.op = "perform_vector_search", !.query = q,
                                     !.distance_threshold = th, !.top_k = k],
                      resp,
                      perform_vector_search(client, resp, q, th, k))

(* sanitized = service.sanitize_for_sql(query)                             *)
(* df, err = service.perform_grouped_search(sanitized, ...)                *)
GroupedSearch ==
    /\ pc = "idle"
    /\ \E raw_query \in SearchQueries, th \in SearchThresholds, k \in SearchTopKs,
          pl \in SearchPatentsLimits, pul \in SearchPerUriLimits :
         LET q == sanitize_for_sql(raw_query)
         IN  \E resp \in warehouse({q}, eval_grouped_search_query(index, th.v, k.v,
                                                                 pl.v, pul.v)) :
               Finish([NoCall EXCEPT !.op = "perform_grouped_search", !.query = q,
                                     !.distance_threshold = th, !.top_k = k,
                                     !.patents_limit = pl, !.per_uri_limit = pul],
                      resp,
                      perform_grouped_search(client, resp, q, th, k, pl, pul))

(* sanitized_q = service.sanitize_for_sql(query)                           *)
(* sanitized_uri = service.sanitize_for_sql(uri)                           *)
(* df, err = service.get_components_for_uri(sanitized_q, sanitized_uri, ...) *)
DetailSearch ==
    /\ pc = "idle"
    /\ \E raw_query \in SearchQueries, uri \in SearchUris,
          th \in SearchThresholds, k \in SearchTopKs :
         LET q == sanitize_for_sql(raw_query)
             u == sanitize_for_sql(uri)
             lit == sql_string_literal(u.v)
         IN  \E resp \in warehouse({q, u},
                                   IF lit.ok
                                   THEN eval_detail_query(index, lit.v, th.v, k.v)
                                   ELSE {}) :
               Finish([NoCall EXCEPT !.op = "get_components_for_uri", !.query = q,
                                     !.uri = u, !.requested_uri = uri,
                                     !.distance_threshold = th, !.top_k = k],
                      resp,
                      get_components_for_uri(client, resp, q, u, th, k))

InitSearch ==
    /\ client = BigQueryClient
    /\ pc = "idle"
    /\ call = NoCall
    /\ response = NotAsked
    /\ submitted = <<>>
    /\ outcome = NoOutcome
    /\ sanIn = None
    /\ sanHist = <<>>
    /\ index \in Indexes
    /\ FormatterIdle
    /\ CacheIdle
    /\ OthersIdle

NextSearch ==
    \/ OrchestratedSearch
    \/ FlatSearch
    \/ GroupedSearch
    \/ DetailSearch
    \/ CallerResumes

SpecSearch == InitSearch /\ [][NextSearch]_vars

----------------------------------------------------------------------------
(* AppController._format_search_results.  A table has its column names in *)
(* order and its rows; a row maps each column name to its value.  Values  *)
(* of (1 - distance) * 100 are carried in tenths.                         *)

Frame(columns, rows) == [t |-> "DataFrame", columns |-> columns, v |-> rows]

(* distances on which float arithmetic gives the exact decimal result *)
FormatDistances == {0, 125, 200, 375, 1000, 1125, 2000}

ResultRows ==
    {[uri |-> "gs://p/a.pdf", component_name |-> "valve",
      component_function |-> "regulates flow", distance |-> d] : d \in FormatDistances}
    \cup
    {[uri |-> "gs://p/b.pdf", component_name |-> "rotor",
      component_function |-> "spins", distance |-> d] : d \in FormatDistances}

ResultColumns == <<"uri", "component_name", "component_function", "distance">>

ResultFrames == {Frame(ResultColumns, rows) : rows \in TablesOf(ResultRows)}

(* df.copy() *)
copy(df) == df

RenamedTo(mapping, c) == IF c \in DOMAIN mapping THEN mapping[c] ELSE c

(* df.rename(columns=mapping) *)
rename(df, mapping) ==
    LET old == Range(df.columns)
        new == {RenamedTo(mapping, c) : c \in old}
        source(n) == CHOOSE c \in old : RenamedTo(mapping, c) = n
    IN  Frame([i \in DOMAIN df.columns |-> RenamedTo(mapping, df.columns[i])],
              [i \in DOMAIN df.v |-> [n \in new |-> df.v[i][source(n)]]])

(* Series.round(): to the nearest whole number, a half to the even one *)
round(tenths) ==
    LET q == tenths \div 10
        r == tenths % 10
    IN  IF r < 5 THEN 10 * q
        ELSE IF r > 5 THEN 10 * (q + 1)
        ELSE IF q % 2 = 0 THEN 10 * q ELSE 10 * (q + 1)

(* Series.astype(int): the fraction is cut off, toward zero *)
astype_int(tenths) ==
    IF tenths >= 0 THEN tenths \div 10 ELSE -((-tenths) \div 10)

(* Mutant: ((1 - distance) * 100).astype(int), no round() *)
similarity_truncated(distance) == astype_int(1000 - distance)

(* ((1 - display_df['distance']) * 100).round().astype(int) *)
similarity(distance) == astype_int(round(1000 - distance))

(* df[name] = values: a new last column, or an existing one overwritten *)
with_column(df, name, values) ==
    Frame(IF name \in Range(df.columns) THEN df.columns ELSE Append(df.columns, name),
          [i \in DOMAIN df.v |->
             [c \in Range(df.columns) \cup {name} |->
                IF c = name THEN values[i] ELSE df.v[i][c]]])

Keep(seq, keep) == SelectSeq(seq, LAMBDA c : c \in keep)

(* df.drop(columns=names) *)
drop(df, names) ==
    Frame(Keep(df.columns, Range(df.columns) \ names),
          [i \in DOMAIN df.v |-> [c \in Range(df.columns) \ names |-> df.v[i][c]]])

(* df[columns_order] *)
select(df, columns_order) ==
    Frame(columns_order,
          [i \in DOMAIN df.v |-> [c \in Range(columns_order) |-> df.v[i][c]]])

Renames ==
    [uri |-> "Patent URI", component_name |-> "Component",
     component_function |-> "Function"]

(* the table the caller handed over as the call leaves it, and the result *)
format_search_results(df) ==
    LET display_df == rename(copy(df), Renames)
        scored == with_column(display_df, "Similarity",
                              [i \in DOMAIN display_df.v |->
                                 similarity(display_df.v[i]["distance"])])
        dropped == drop(scored, {"distance"})
        columns_order == <<"Patent URI", "Component", "Function", "Similarity">>
    IN  [df |-> df, display_df |-> select(dropped, columns_order)]

FormatSearchResults ==
    /\ formatted = None
    /\ LET r == format_search_results(formatIn)
       IN  /\ formatIn' = r.df
           /\ formatted' = [df |-> formatIn, display_df |-> r.display_df]
    /\ UNCHANGED <<client, pc, call, response, submitted, outcome, sanVars, index, cacheVars, otherVars>>

(* the caller drops the display table and may format again *)
FormatAgain ==
    /\ formatted # None
    /\ formatted' = None
    /\ UNCHANGED <<client, pc, call, response, submitted, outcome, sanVars, index, formatIn, cacheVars, otherVars>>

InitFormat ==
    /\ client = None
    /\ pc = "idle"
    /\ call = NoCall
    /\ response = NotAsked
    /\ submitted = <<>>
    /\ outcome = NoOutcome
    /\ sanIn = None
    /\ sanHist = <<>>
    /\ index = {}
    /\ formatIn \in ResultFrames
    /\ formatted = None
    /\ CacheIdle
    /\ OthersIdle

NextFormat ==
    \/ FormatSearchResults
    \/ FormatAgain

SpecFormat == InitFormat /\ [][NextFormat]_vars

----------------------------------------------------------------------------
(* gcp_auth: GCPAuth and the module-level client cache.  Sessions run in   *)
(* threads of one process and share _CACHED_CLIENT; a thread can be        *)
(* switched out between the cache check, the authentication and the store. *)

Client(n) == [t |-> "Client", v |-> n]

Credentials == [t |-> "Credentials", v |-> <<>>]

(* where authenticate() can fail, or "none" *)
AuthFailures == {"config_validator", "parse_service_account_key",
                 "create_credentials", "create_bigquery_client", "none"}

(* Mutant: the credentials are kept in a local and never stored *)
authenticate_credentials_local(self, failure, fresh) ==
    IF failure = "none"
    THEN [self |-> [self EXCEPT !.client = fresh], value |-> <<TRUE, None>>]
    ELSE [self |-> self, value |-> <<FALSE, Text(failure)>>]

(* GCPAuth.authenticate: the object afterwards and the pair returned *)
authenticate(self, failure, fresh) ==
    IF failure \in {"config_validator", "parse_service_account_key", "create_credentials"}
    THEN [self |-> self, value |-> <<FALSE, Text(failure)>>]
    ELSE IF failure = "create_bigquery_client"
    THEN [self |-> [self EXCEPT !.credentials = Credentials],
          value |-> <<FALSE, Text(failure)>>]
    ELSE [self |-> [credentials |-> Credentials, client |-> fresh],
          value |-> <<TRUE, None>>]

(* GCPAuth.get_client *)
get_client(self, failure, fresh) ==
    IF ~Truthy(self.client)
    THEN LET r == authenticate(self, failure, fresh)
         IN  IF ~r.value[1]
             THEN [self |-> r.self, value |-> None]
             ELSE [self |-> r.self, value |-> r.self.client]
    ELSE [self |-> self, value |-> self.client]

(* create_gcp_auth *)
create_gcp_auth == GCPAuth

(* get_bigquery_client, line 115: if use_cache and _CACHED_CLIENT is not None *)
GetBigqueryClient(s) ==
    /\ sess[s].pc = "idle"
    /\ calls < MaxCalls
    /\ calls' = calls + 1
    /\ \E use_cache \in BOOLEAN :
         /\ anyUncached' = (anyUncached \/ ~use_cache)
         /\ IF use_cache /\ cached # None
            THEN sess' = [sess EXCEPT ![s] = [pc |-> "returned", use_cache |-> use_cache,
                                              client |-> None, ret |-> cached]]
            ELSE sess' = [sess EXCEPT ![s] = [pc |-> "authenticating",
                                              use_cache |-> use_cache,
                                              client |-> None, ret |-> None]]
    /\ UNCHANGED <<cached, constructed, wasReset>>
    /\ UNCHANGED <<client, pc, call, response, submitted, outcome, sanVars, index, formatVars, otherVars>>

(* lines 118-119: auth = create_gcp_auth(); client = auth.get_client() *)
Authenticate(s) ==
    /\ sess[s].pc = "authenticating"
    /\ \E failure \in AuthFailures :
         LET r == get_client(create_gcp_auth, failure, Client(constructed + 1))
         IN  /\ sess' = [sess EXCEPT ![s].pc = "storing", ![s].client = r.value]
             /\ constructed' = IF r.self.client # None THEN constructed + 1 ELSE constructed
    /\ UNCHANGED <<cached, calls, wasReset, anyUncached>>
    /\ UNCHANGED <<client, pc, call, response, submitted, outcome, sanVars, index, formatVars, otherVars>>

(* Mutant: if use_cache: _CACHED_CLIENT = client, a failure stored as well *)
StoreWhateverCameBack(s) ==
    /\ sess[s].pc = "storing"
    /\ cached' = IF sess[s].use_cache THEN sess[s].client ELSE cached
    /\ sess' = [sess EXCEPT ![s].pc = "returned", ![s].ret = sess[s].client]
    /\ UNCHANGED <<constructed, calls, wasReset, anyUncached>>
    /\ UNCHANGED <<client, pc, call, response, submitted, outcome, sanVars, index, formatVars, otherVars>>

(* lines 120-122: if client and use_cache: _CACHED_CLIENT = client; return client *)
StoreAndReturn(s) ==
    /\ sess[s].pc = "storing"
    /\ cached' = IF Truthy(sess[s].client) /\ sess[s].use_cache
                 THEN sess[s].client ELSE cached
    /\ sess' = [sess EXCEPT ![s].pc = "returned", ![s].ret = sess[s].client]
    /\ UNCHANGED <<constructed, calls, wasReset, anyUncached>>
    /\ UNCHANGED <<client, pc, call, response, submitted, outcome, sanVars, index, formatVars, otherVars>>

(* the session has its client, or None, and may ask again *)
SessionResumes(s) ==
    /\ sess[s].pc = "returned"
    /\ calls < MaxCalls
    /\ sess' = [sess EXCEPT ![s] = IdleSession]
    /\ UNCHANGED <<cached, constructed, calls, wasReset, anyUncached>>
    /\ UNCHANGED <<client, pc, call, response, submitted, outcome, sanVars, index, formatVars, otherVars>>

(* reset_bigquery_client_cache *)
ResetBigqueryClientCache ==
    /\ ~wasReset
    /\ cached' = None
    /\ wasReset' = TRUE
    /\ UNCHANGED <<sess, constructed, calls, anyUncached>>
    /\ UNCHANGED <<client, pc, call, response, submitted, outcome, sanVars, index, formatVars, otherVars>>

InitCache ==
    /\ client = None
    /\ pc = "idle"
    /\ call = NoCall
    /\ response = NotAsked
    /\ submitted = <<>>
    /\ outcome = NoOutcome
    /\ sanIn = None
    /\ sanHist = <<>>
    /\ index = {}
    /\ FormatterIdle
    /\ CacheIdle
    /\ OthersIdle

NextCache ==
    \/ \E s \in Sessions : GetBigqueryClient(s)
    \/ \E s \in Sessions : Authenticate(s)
    \/ \E s \in Sessions : StoreAndReturn(s)
    \/ \E s \in Sessions : SessionResumes(s)
    \/ ResetBigqueryClientCache

SpecCache == InitCache /\ [][NextCache]_vars

----------------------------------------------------------------------------
(* config/secret_source.py: the service-account JSON from the environment  *)
(* or from the secrets mapping.  A dict is a function from its keys, a     *)
(* mapping of secrets likewise; APP_ENV values carry their characters.     *)

(* the search, the sanitizer, the formatter and the cache as constructed *)
EarlierIdle ==
    /\ client = None
    /\ pc = "idle"
    /\ call = NoCall
    /\ response = NotAsked
    /\ submitted = <<>>
    /\ outcome = NoOutcome
    /\ sanIn = None
    /\ sanHist = <<>>
    /\ index = {}
    /\ FormatterIdle
    /\ CacheIdle

earlierVars == <<serviceVars, sanVars, index, formatVars, cacheVars>>

Dict(d) == [t |-> "dict", v |-> d]

(* x or y *)
Or(x, y) == IF Truthy(x) THEN x ELSE y

LowerChar(c) ==
    CASE c = "P" -> "p"
      [] c = "R" -> "r"
      [] c = "O" -> "o"
      [] c = "D" -> "d"
      [] OTHER -> c

(* str.lower() *)
lower(x) == PyStr([i \in DOMAIN x.v |-> LowerChar(x.v[i])])

Prod == <<"p", "r", "o", "d">>
Production == <<"p", "r", "o", "d", "u", "c", "t", "i", "o", "n">>

AppEnvs ==
    {PyStr(Prod), PyStr(<<"P", "R", "O", "D">>),
     PyStr(<<"P", "r", "o", "d", "u", "c", "t", "i", "o", "n">>),
     PyStr(<<"d", "e", "v">>), PyStr(<<"p", "r", "o", "d", " ">>), PyStr(<<>>)}

(* the keys of a service-account file, in the order the module lists them *)
SaKeys ==
    <<"type", "project_id", "private_key_id", "private_key", "client_email",
      "client_id", "auth_uri", "token_uri", "auth_provider_x509_cert_url",
      "client_x509_cert_url", "universe_domain">>

SaTable == [type |-> "service_account", project_id |-> "from-table"]
SaKey == [type |-> "service_account", project_id |-> "from-key"]
SaEnv == [type |-> "service_account", project_id |-> "from-env"]
SaTop == [project_id |-> "from-top-level"]
SaDefault == [client_email |-> "sa@from-default"]
SaTopAndDefault == [project_id |-> "from-top-level", client_email |-> "sa@from-default"]

KnownDicts == {SaTable, SaKey, SaEnv, SaTop, SaDefault, SaTopAndDefault}

RECURSIVE Members(_, _, _)
Members(d, i, first) ==
    IF i > Len(SaKeys) THEN ""
    ELSE IF SaKeys[i] \in DOMAIN d
    THEN (IF first THEN "" ELSE ", ")
         \o "\"" \o SaKeys[i] \o "\": \"" \o d[SaKeys[i]] \o "\""
         \o Members(d, i + 1, FALSE)
    ELSE Members(d, i + 1, first)

(* json.dumps of a dict of strings *)
json_dumps(d) == "{" \o Members(d, 1, TRUE) \o "}"

(* json.loads: the dict a text denotes, or ok = FALSE when it raises *)
json_loads(text) ==
    IF \E d \in KnownDicts : json_dumps(d) = text
    THEN [ok |-> TRUE, v |-> Dict(CHOOSE d \in KnownDicts : json_dumps(d) = text)]
    ELSE [ok |-> FALSE, v |-> None]

Absent == <<>>

Entry(key, values) == {Absent} \cup {key :> x : x \in values}

(* the secrets mappings considered: each key absent or present in one of   *)
(* the shapes the module distinguishes                                     *)
SecretsMappings ==
    {a @@ b @@ c @@ d @@ e :
       a \in Entry("gcp_service_account", {Dict(SaTable), Dict(<<>>), Text("table")}),
       b \in Entry("GCP_SA_KEY", {Dict(SaKey), Text(json_dumps(SaKey)), Text("{not json")}),
       c \in Entry("project_id", {Text("from-top-level")}),
       d \in Entry("APP_ENV", {PyStr(Prod), PyStr(<<"d", "e", "v">>), PyInt(1)}),
       e \in Entry("default", {Dict("client_email" :> Text("sa@from-default")),
                               Dict("APP_ENV" :> PyStr(Prod))})}

SecretsValues == {None} \cup {Dict(m) : m \in SecretsMappings}

Environs ==
    [APP_ENV : {None} \cup AppEnvs,
     GCP_SA_KEY : {None, Text(""), Text(json_dumps(SaEnv))}]

(* _get_secrets: st.secrets, or None when streamlit cannot be imported *)
get_secrets(sec) == sec

(* _from_secrets(key, default) *)
from_secrets(sec, key, default) ==
    IF ~Truthy(get_secrets(sec)) THEN default
    ELSE IF key \in DOMAIN sec.v THEN sec.v[key]
    ELSE IF "default" \in DOMAIN sec.v /\ key \in DOMAIN sec.v["default"].v
    THEN sec.v["default"].v[key]
    ELSE default

(* _collect_sa_from_top_level *)
collect_sa_from_top_level(sec) ==
    LET found == {k \in Range(SaKeys) : from_secrets(sec, k, None) # None}
        values == [k \in found |-> from_secrets(sec, k, None).v]
    IN  IF found # {} THEN Dict(values) ELSE None

(* _get_sa_dict_from_secrets *)
get_sa_dict_from_secrets(sec) ==
    LET gcp_sa_key == from_secrets(sec, "GCP_SA_KEY", None)
        top == collect_sa_from_top_level(sec)
    IN  IF ~Truthy(get_secrets(sec)) THEN None
        ELSE IF "gcp_service_account" \in DOMAIN sec.v
                /\ sec.v["gcp_service_account"].t = "dict"
        THEN sec.v["gcp_service_account"]
        ELSE IF gcp_sa_key.t = "dict" THEN gcp_sa_key
        ELSE IF gcp_sa_key.t = "text" /\ json_loads(gcp_sa_key.v).ok
        THEN json_loads(gcp_sa_key.v).v
        ELSE IF Truthy(top) THEN top
        ELSE None

(* _get_app_env *)
get_app_env(env, sec) ==
    LET e == Or(env.APP_ENV, from_secrets(sec, "APP_ENV", PyStr(<<"d", "e", "v">>)))
    IN  IF e.t = "str" THEN lower(e) ELSE PyStr(<<"d", "e", "v">>)

(* Mutant: the environment name is compared as written, without lower() *)
get_gcp_sa_json_as_written(env, sec, app_env) ==
    LET env_json == env.GCP_SA_KEY
        secrets_dict == get_sa_dict_from_secrets(sec)
        secrets_json == IF Truthy(secrets_dict) THEN Text(json_dumps(secrets_dict.v))
                        ELSE None
        effective_env == Or(app_env, Or(env.APP_ENV,
                             from_secrets(sec, "APP_ENV", PyStr(<<"d", "e", "v">>))))
        prefer_secrets == effective_env.v \in {Prod, Production}
    IN  IF prefer_secrets THEN Or(secrets_json, env_json)
        ELSE Or(env_json, secrets_json)

get_gcp_sa_json(env, sec, app_env) ==
    LET env_json == env.GCP_SA_KEY
        secrets_dict == get_sa_dict_from_secrets(sec)
        secrets_json == IF Truthy(secrets_dict) THEN Text(json_dumps(secrets_dict.v))
                        ELSE None
        effective_env == lower(Or(app_env, get_app_env(env, sec)))
        prefer_secrets == effective_env.v \in {Prod, Production}
    IN  IF prefer_secrets THEN Or(secrets_json, env_json)
        ELSE Or(env_json, secrets_json)

GetGcpSaJson ==
    /\ saCall = None
    /\ \E app_env \in {None} \cup AppEnvs :
         saCall' = [app_env |-> app_env,
                    value |-> get_gcp_sa_json(environ, secrets, app_env)]
    /\ UNCHANGED <<environ, secrets, details, laterVars>>
    /\ UNCHANGED earlierVars

InitSecrets ==
    /\ EarlierIdle
    /\ environ \in Environs
    /\ secrets \in SecretsValues
    /\ saCall = None
    /\ details = None
    /\ LaterIdle

NextSecrets == GetGcpSaJson

SpecSecrets == InitSecrets /\ [][NextSecrets]_vars

----------------------------------------------------------------------------
(* The grouped view and its detail loader (DashboardEngine): a grouped     *)
(* search, then for a patent card of its result the detail search for the  *)
(* card's URI, with the same query and the same defaults.                  *)

(* ok2, _msg2, details = self.controller.get_patent_components(active_query, u) *)
LoadDetails ==
    /\ pc = "returned"
    /\ call.op = "perform_grouped_search"
    /\ outcome.kind = "return"
    /\ outcome.value[1] # None
    /\ details = None
    /\ \E i \in DOMAIN outcome.value[1].v :
         LET row == outcome.value[1].v[i]
             u == sanitize_for_sql(PyStr(row.uri))
             lit == sql_string_literal(u.v)
         IN  \E resp \in warehouse({call.query, u},
                                   IF lit.ok
                                   THEN eval_detail_query(index, lit.v,
                                                          call.distance_threshold.v,
                                                          call.top_k.v)
                                   ELSE {}) :
               details' = [row |-> row,
                           out |-> get_components_for_uri(client, resp, call.query, u,
                                                          call.distance_threshold,
                                                          call.top_k).out]
    /\ UNCHANGED <<earlierVars, secretVars, laterVars>>

(* the page is left *)
LeaveGroupedView ==
    /\ pc = "returned"
    /\ pc' = "idle"
    /\ call' = NoCall
    /\ response' = NotAsked
    /\ submitted' = <<>>
    /\ outcome' = NoOutcome
    /\ details' = None
    /\ UNCHANGED <<client, sanVars, index, formatVars, cacheVars, secretVars, laterVars>>

InitViews == InitSearch

NextViews ==
    \/ GroupedSearch
    \/ LoadDetails
    \/ LeaveGroupedView

SpecViews == InitViews /\ [][NextViews]_vars

----------------------------------------------------------------------------
(* AppController: the search service it builds on demand and the searches  *)
(* it forwards.  env holds what the surroundings answer during one call:   *)
(* the client provider's results in call order, get_bigquery_client()'s    *)
(* result inside the probe, and how the probe's test query ends.  An       *)
(* operation yields the controller as the call leaves it, how the call     *)
(* ends, the SQL handed to client.query and the probes made.               *)

SemanticSearchService(cl) == [t |-> "SemanticSearchService", client |-> cl]

AppController(bigquery_client, semantic_search_service) ==
    [bigquery_client |-> bigquery_client,
     semantic_search_service |-> semantic_search_service]

ProbeSql == "SELECT 1 as test"

ProbeEnds == {"ok", "timeout"}

ClientResults == {None, BigQueryClient}

Envs == [provider : [1..2 -> ClientResults], fallback : ClientResults, probe : ProbeEnds]

(* client = client or get_bigquery_client(); client.query(query).result() *)
check_bigquery_connection(cl, env) ==
    LET c == Or(cl, env.fallback)
    IN  IF ~Truthy(c)
        THEN [value |-> <<FALSE, Text("Failed to authenticate with GCP")>>,
              submitted |-> <<>>]
        ELSE IF env.probe = "ok"
        THEN [value |-> <<TRUE, Text("GCP connection successful")>>,
              submitted |-> <<ProbeSql>>]
        ELSE [value |-> <<FALSE, Text("GCP connection failed: " \o env.probe)>>,
              submitted |-> <<ProbeSql>>]

(* the fields of ConnectionStatus that the controller reads *)
get_connection_status(self, env) ==
    LET cl == Or(self.bigquery_client, env.provider[1])
        r == check_bigquery_connection(cl, env)
    IN  [gcp_connected |-> r.value[1], gcp_message |-> r.value[2],
         submitted |-> r.submitted]

(* _get_bigquery_setup from the connection status on; fetched is the      *)
(* client held, or else the provider's                                     *)
bigquery_setup_after(self, fetched, connection_status) ==
    IF ~connection_status.gcp_connected
    THEN [self |-> self,
          value |-> <<None, None,
                      Text("BigQuery not connected: "
                           \o Format(connection_status.gcp_message))>>,
          submitted |-> connection_status.submitted, connected |-> FALSE]
    ELSE IF ~Truthy(fetched)
    THEN [self |-> [self EXCEPT !.bigquery_client = fetched],
          value |-> <<None, None, Text("Failed to get BigQuery client")>>,
          submitted |-> connection_status.submitted, connected |-> TRUE]
    ELSE [self |-> [self EXCEPT !.bigquery_client = fetched],
          value |-> <<fetched, Text(config.project_id), None>>,
          submitted |-> connection_status.submitted, connected |-> TRUE]

(* return (client, project_id, error_message) *)
get_bigquery_setup(self, env) ==
    bigquery_setup_after(self, Or(self.bigquery_client, env.provider[2]),
                         get_connection_status(self, env))

(* Mutant: the service is built on the provider's client without a probe *)
get_semantic_search_service_unprobed(self, env) ==
    IF Truthy(self.semantic_search_service)
    THEN [self |-> self, value |-> self.semantic_search_service,
          submitted |-> <<>>, probes |-> 0, connected |-> FALSE]
    ELSE IF ~Truthy(env.provider[2])
    THEN [self |-> self, value |-> None,
          submitted |-> <<>>, probes |-> 0, connected |-> FALSE]
    ELSE [self |-> [self EXCEPT !.bigquery_client = env.provider[2],
                                !.semantic_search_service =
                                    SemanticSearchService(env.provider[2])],
          value |-> SemanticSearchService(env.provider[2]),
          submitted |-> <<>>, probes |-> 0, connected |-> FALSE]

(* _get_semantic_search_service from the setup s on *)
semantic_search_service_after(s) ==
    IF Truthy(s.value[3])
    THEN [self |-> s.self, value |-> None,
          submitted |-> s.submitted, probes |-> 1, connected |-> s.connected]
    ELSE [self |-> [s.self EXCEPT !.semantic_search_service =
                                      SemanticSearchService(s.value[1])],
          value |-> SemanticSearchService(s.value[1]),
          submitted |-> s.submitted, probes |-> 1, connected |-> s.connected]

get_semantic_search_service(self, env) ==
    IF Truthy(self.semantic_search_service)
    THEN [self |-> self, value |-> self.semantic_search_service,
          submitted |-> <<>>, probes |-> 0, connected |-> FALSE]
    ELSE semantic_search_service_after(get_bigquery_setup(self, env))

ServiceNotAvailable == Text("Semantic search service not available")

SearchResponse(success, message, results, query) ==
    [t |-> "SearchResponse", success |-> success, message |-> message,
     results |-> results, query |-> query]

(* row.get(name, default) *)
get(row, name, default) == IF name \in DOMAIN row THEN row[name] ELSE default

SearchResult(row) ==
    [patent_uri |-> get(row, "Patent URI", ""),
     component |-> get(row, "Component", ""),
     function |-> get(row, "Function", ""),
     similarity |-> get(row, "Similarity", 0)]

(* SearchResponse.from_dataframe *)
from_dataframe(success, message, df, query) ==
    SearchResponse(success, message,
                   IF df # None /\ ~empty(df)
                   THEN [i \in DOMAIN df.v |-> SearchResult(df.v[i])]
                   ELSE <<>>,
                   query)

(* what a controller call did, given how the service was obtained *)
Done(g, out, sqls, resp) ==
    [self |-> g.self, out |-> out, submitted |-> g.submitted \o sqls,
     probes |-> g.probes, connected |-> g.connected,
     response |-> IF sqls = <<>> THEN NotAsked ELSE resp]

(* the try block of search_patents and its except clause; the table that  *)
(* to_dataframe() builds has the columns of SELECT * FROM search_results  *)
flat_search_response(r, query) ==
    LET success == r.out.value[1]
        message == r.out.value[2]
        results_df == r.out.value[3]
    IN  IF r.out.kind = "raise"
        THEN SearchResponse(FALSE, Text("Search failed: " \o r.out.text), <<>>, query)
        ELSE IF ~success
        THEN SearchResponse(FALSE, message, <<>>, query)
        ELSE IF results_df # None /\ ~empty(results_df)
        THEN from_dataframe(TRUE, message,
                            format_search_results(
                                Frame(ResultColumns, results_df.v)).display_df,
                            query)
        ELSE SearchResponse(TRUE, message, <<>>, query)

(* search_patents once the service g is looked up and the search r made *)
flat_search_done(g, r, resp, query) ==
    Done(g, Return(<<flat_search_response(r, query)>>), r.submitted, resp)

(* search_patents from the service lookup g on, searching with threshold th *)
search_patents_after(g, idx, query, th) ==
    IF ~Truthy(g.value)
    THEN {Done(g, Return(<<SearchResponse(FALSE, ServiceNotAvailable, <<>>, query)>>),
               <<>>, NotAsked)}
    ELSE {flat_search_done(g,
                           run_semantic_search(g.value.client, resp, query,
                                               PyFloat(th), PyInt(DefaultTopK), FALSE),
                           resp, query) :
          resp \in warehouse({sanitize_for_sql(query)},
                             eval_vector_search_query(idx, th, DefaultTopK))}

(* Mutant: the flat search is run with the widest distance_threshold *)
search_patents_any_distance(self, env, idx, query) ==
    search_patents_after(get_semantic_search_service(self, env), idx, query, 2000)

(* every way search_patents(request) can go on the index idx: the service *)
(* is called with the query alone, so with its default threshold and top_k *)
search_patents(self, env, idx, query) ==
    search_patents_after(get_semantic_search_service(self, env), idx, query,
                         DefaultDistanceThreshold)

(* the try block of search_patents_grouped after the service call r *)
grouped_search_done(g, r, resp, query) ==
    Done(g,
         IF Truthy(r.out.value[2]) THEN Return(<<FALSE, r.out.value[2], None>>)
         ELSE IF r.out.value[1] = None \/ empty(r.out.value[1])
         THEN Return(<<TRUE,
                       Text("No patents found for '" \o Format(query) \o "'."),
                       DataFrame(<<>>)>>)
         ELSE Return(<<TRUE,
                       Text("Found " \o ToString(Len(r.out.value[1].v))
                            \o " patents for '" \o Format(query) \o "'."),
                       r.out.value[1]>>),
         r.submitted, resp)

search_patents_grouped_after(g, sanitized, idx, query, distance_threshold, top_k, patents_limit, per_uri_limit) ==
    IF ~Truthy(g.value)
    THEN {Done(g, Return(<<FALSE, ServiceNotAvailable, None>>), <<>>, NotAsked)}
    ELSE {grouped_search_done(g,
                              perform_grouped_search(g.value.client, resp, sanitized,
                                                     distance_threshold, top_k,
                                                     patents_limit, per_uri_limit),
                              resp, query) :
          resp \in warehouse({sanitized},
                             eval_grouped_search_query(idx, distance_threshold.v,
                                                       top_k.v, patents_limit.v,
                                                       per_uri_limit.v))}

search_patents_grouped(self, env, idx, query, distance_threshold, top_k, patents_limit, per_uri_limit) ==
    search_patents_grouped_after(get_semantic_search_service(self, env),
                                 sanitize_for_sql(query), idx, query,
                                 distance_threshold, top_k, patents_limit, per_uri_limit)

(* the try block of get_patent_components after the service call r *)
patent_components_done(g, r, resp) ==
    Done(g,
         IF Truthy(r.out.value[2]) THEN Return(<<FALSE, r.out.value[2], None>>)
         ELSE IF r.out.value[1] = None \/ empty(r.out.value[1])
         THEN Return(<<TRUE, Text("No components found for URI."), DataFrame(<<>>)>>)
         ELSE Return(<<TRUE, Text("OK"), r.out.value[1]>>),
         r.submitted, resp)

get_patent_components_after(g, sanitized_q, sanitized_uri, lit, idx, distance_threshold, top_k) ==
    IF ~Truthy(g.value)
    THEN {Done(g, Return(<<FALSE, ServiceNotAvailable, None>>), <<>>, NotAsked)}
    ELSE {patent_components_done(g,
                                 get_components_for_uri(g.value.client, resp, sanitized_q,
                                                        sanitized_uri, distance_threshold,
                                                        top_k),
                                 resp) :
          resp \in warehouse({sanitized_q, sanitized_uri},
                             IF lit.ok
                             THEN eval_detail_query(idx, lit.v, distance_threshold.v,
                                                    top_k.v)
                             ELSE {})}

get_patent_components(self, env, idx, query, uri, distance_threshold, top_k) ==
    get_patent_components_after(get_semantic_search_service(self, env),
                                sanitize_for_sql(query), sanitize_for_sql(uri),
                                sql_string_literal(sanitize_for_sql(uri).v), idx,
                                distance_threshold, top_k)

(* the probe history after a controller call *)
Probing(p, r) ==
    [p EXCEPT !.ok = @ \/ (r.probes > 0 /\ r.connected),
              !.last = r.probes,
              !.last_ok = r.probes > 0 /\ r.connected]

(* The controller's caller: one call at a time, each run to its end *)
ControllerCall(c, r) ==
    /\ pc' = "returned"
    /\ call' = c
    /\ response' = r.response
    /\ submitted' = r.submitted
    /\ outcome' = r.out
    /\ controller' = r.self
    /\ probed' = Probing(probed, r)
    /\ UNCHANGED <<client, sanVars, index, formatVars, cacheVars, secretVars, details>>
    /\ UNCHANGED <<stateVars, authVars>>

ControllerQueries == {PyStr(<<"a">>), PyStr(<<"'">>), PyStr(<<"\\">>), PyStr(<<>>)}

SearchPatents ==
    /\ pc = "idle"
    /\ \E query \in ControllerQueries, env \in Envs :
         \E r \in search_patents(controller, env, index, query) :
           ControllerCall([NoCall EXCEPT !.op = "search_patents", !.query = query], r)

SearchPatentsGrouped ==
    /\ pc = "idle"
    /\ \E query \in ControllerQueries, env \in Envs :
         \E r \in search_patents_grouped(controller, env, index, query,
                                         PyFloat(DefaultDistanceThreshold),
                                         PyInt(DefaultTopK),
                                         PyInt(DefaultPatentsLimit),
                                         PyInt(DefaultPerUriLimit)) :
           ControllerCall([NoCall EXCEPT !.op = "search_patents_grouped",
                                         !.query = query], r)

GetPatentComponents ==
    /\ pc = "idle"
    /\ \E query \in ControllerQueries, uri \in SearchUris, env \in Envs :
         \E r \in get_patent_components(controller, env, index, query, uri,
                                        PyFloat(DefaultDistanceThreshold),
                                        PyInt(DefaultTopK)) :
           ControllerCall([NoCall EXCEPT !.op = "get_patent_components",
                                         !.query = query, !.uri = uri], r)

Controllers ==
    {AppController(c, s) :
       c \in ClientResults,
       s \in {None, SemanticSearchService(BigQueryClient), SemanticSearchService(None)}}

InitController ==
    /\ client = None
    /\ pc = "idle"
    /\ call = NoCall
    /\ response = NotAsked
    /\ submitted = <<>>
    /\ outcome = NoOutcome
    /\ sanIn = None
    /\ sanHist = <<>>
    /\ index \in Indexes
    /\ FormatterIdle
    /\ CacheIdle
    /\ SecretsIdle
    /\ details = None
    /\ controller \in Controllers
    /\ probed = [NoProbe EXCEPT !.injected = controller.semantic_search_service # None]
    /\ StateIdle
    /\ AuthIdle

NextController ==
    \/ SearchPatents
    \/ SearchPatentsGrouped
    \/ GetPatentComponents
    \/ CallerResumes

SpecController == InitController /\ [][NextController]_vars

----------------------------------------------------------------------------
(* PureStateManager: each method takes the AppState it holds and yields    *)
(* the AppState afterwards or the value returned.                          *)

is_search_triggered(self) == self.search_triggered

get_search_query(self) == self.search_query

trigger_search(self, query) ==
    [self EXCEPT !.search_query = query, !.search_triggered = TRUE]

(* Mutant: reset_search leaves search_query as it was *)
reset_search_keeping_query(self) == [self EXCEPT !.search_triggered = FALSE]

reset_search(self) ==
    [self EXCEPT !.search_triggered = FALSE, !.search_query = PyStr(<<>>)]

get_search_input(self) == self.search_input

is_overview_mode(self) == ~is_search_triggered(self)

set_search_input(self, input_value) == [self EXCEPT !.search_input = input_value]

StateQueries == {PyStr(x) : x \in StringsUpTo(MaxLen)}

TriggerSearch ==
    /\ \E query \in StateQueries :
         /\ state' = trigger_search(state, query)
         /\ latest' = [op |-> "trigger_search", query |-> query,
                       called |-> "trigger_search"]
    /\ UNCHANGED <<lastRun, earlierVars, secretVars, details, controllerVars, authVars>>

ResetSearch ==
    /\ state' = reset_search(state)
    /\ latest' = [op |-> "reset_search", query |-> None, called |-> "reset_search"]
    /\ UNCHANGED <<lastRun, earlierVars, secretVars, details, controllerVars, authVars>>

SetSearchInput ==
    /\ \E input_value \in StateQueries :
         /\ state' = set_search_input(state, input_value)
         /\ latest' = [latest EXCEPT !.called = "set_search_input"]
    /\ UNCHANGED <<lastRun, earlierVars, secretVars, details, controllerVars, authVars>>

InitState ==
    /\ EarlierIdle
    /\ SecretsIdle
    /\ details = None
    /\ LaterIdle

NextState ==
    \/ TriggerSearch
    \/ ResetSearch
    \/ SetSearchInput

SpecState == InitState /\ [][NextState]_vars

----------------------------------------------------------------------------
(* DashboardEngine.run over the state manager and the controller.  The UI  *)
(* reports the query of the search box with the whitespace around it       *)
(* removed, whether a search was clicked and whether results are grouped.  *)
(* c is the controller with its probe history; an operation yields every   *)
(* way the run can go on the index idx.                                    *)

RECURSIVE lstrip(_)
lstrip(chars) ==
    IF chars # <<>> /\ Head(chars) = " " THEN lstrip(Tail(chars)) ELSE chars

RECURSIVE rstrip(_)
rstrip(chars) ==
    IF chars # <<>> /\ chars[Len(chars)] = " "
    THEN rstrip(SubSeq(chars, 1, Len(chars) - 1))
    ELSE chars

(* str.strip() *)
strip(x) == PyStr(lstrip(rstrip(x.v)))

(* SearchRequest(query=query), with str_strip_whitespace *)
SearchRequest(query) == [query |-> strip(query)]

(* the text of the search box as typed, stripped by render_search_box *)
UiQueries == {strip(PyStr(x)) : x \in StringsUpTo(MaxUiLen)}

SearchActions == [query : UiQueries, search_clicked : BOOLEAN, grouped : BOOLEAN]

StateCall(op, query) == [op |-> op, query |-> query]

After(c, r) == [controller |-> r.self, probed |-> Probing(c.probed, r)]

(* request = SearchRequest(query=query); self.controller.search_patents(request) *)
get_search_results(c, env, idx, query) ==
    {After(c, r) : r \in search_patents(c.controller, env, idx, SearchRequest(query).query)}

(* Mutant: a click triggers the search whatever the query *)
render_overview_mode_ui_any_click(st, search_actions) ==
    IF search_actions.search_clicked
    THEN [state |-> trigger_search(st, search_actions.query),
          calls |-> <<StateCall("trigger_search", search_actions.query)>>]
    ELSE [state |-> st, calls |-> <<>>]

render_overview_mode_ui(st, search_actions) ==
    IF search_actions.search_clicked /\ Truthy(search_actions.query)
    THEN [state |-> trigger_search(st, search_actions.query),
          calls |-> <<StateCall("trigger_search", search_actions.query)>>]
    ELSE [state |-> st, calls |-> <<>>]

render_search_mode_ui(st, c, env, idx, query, search_actions) ==
    LET clicked == search_actions.search_clicked /\ Truthy(search_actions.query)
        active_query == IF clicked THEN search_actions.query ELSE query
        shown == IF search_actions.grouped
                 THEN {After(c, r) :
                         r \in search_patents_grouped(c.controller, env, idx, active_query,
                                                      PyFloat(DefaultDistanceThreshold),
                                                      PyInt(DefaultTopK),
                                                      PyInt(DefaultPatentsLimit),
                                                      PyInt(DefaultPerUriLimit))}
                 ELSE IF active_query = query
                 THEN {c}
                 ELSE get_search_results(c, env, idx, active_query)
        new == clicked /\ search_actions.query # query
    IN  {[state |-> IF new THEN trigger_search(st, search_actions.query) ELSE st,
          calls |-> IF new THEN <<StateCall("trigger_search", search_actions.query)>>
                    ELSE <<>>,
          c |-> c2] : c2 \in shown}

run(st, c, envs, idx, search_actions) ==
    IF is_search_triggered(st)
    THEN LET query == get_search_query(st)
         IN  UNION {render_search_mode_ui(st, c1, envs[2], idx, query, search_actions) :
                    c1 \in get_search_results(c, envs[1], idx, query)}
    ELSE LET r == render_overview_mode_ui(st, search_actions)
         IN  {[state |-> r.state, calls |-> r.calls, c |-> c]}

(* within one call the provider and get_bigquery_client() agree: a client *)
(* whose probe succeeds, a client whose probe fails, or no client         *)
DashboardEnvs ==
    {env \in Envs : /\ env.provider[1] = env.fallback
                    /\ env.provider[2] = env.fallback
                    /\ env.fallback = None => env.probe = "ok"}

(* an empty index, or one component within the default distance_threshold *)
DashboardIndexes ==
    {{}} \cup {{IndexRow(c, 500)} : c \in {x \in Components : x.component_name # "rotor"}}

Run ==
    /\ \E search_actions \in SearchActions, e1 \in DashboardEnvs, e2 \in DashboardEnvs :
         \E r \in run(state, [controller |-> controller, probed |-> probed],
                      <<e1, e2>>, index, search_actions) :
           /\ state' = r.state
           /\ latest' = IF r.calls = <<>> THEN latest
                        ELSE [op |-> r.calls[Len(r.calls)].op,
                              query |-> r.calls[Len(r.calls)].query,
                              called |-> r.calls[Len(r.calls)].op]
           /\ lastRun' = [mode |-> IF is_search_triggered(state) THEN "search"
                                   ELSE "overview",
                          query |-> get_search_query(state),
                          search_actions |-> search_actions,
                          calls |-> r.calls]
           /\ controller' = r.c.controller
           /\ probed' = r.c.probed
    /\ UNCHANGED <<earlierVars, secretVars, details, authVars>>

InitDashboard ==
    /\ client = None
    /\ pc = "idle"
    /\ call = NoCall
    /\ response = NotAsked
    /\ submitted = <<>>
    /\ outcome = NoOutcome
    /\ sanIn = None
    /\ sanHist = <<>>
    /\ index \in DashboardIndexes
    /\ FormatterIdle
    /\ CacheIdle
    /\ SecretsIdle
    /\ details = None
    /\ controller \in Controllers
    /\ probed = [NoProbe EXCEPT !.injected = controller.semantic_search_service # None]
    /\ StateIdle
    /\ AuthIdle

NextDashboard == Run

SpecDashboard == InitDashboard /\ [][NextDashboard]_vars

----------------------------------------------------------------------------
(* One GCPAuth object, called in any order.  Every call of authenticate,   *)
(* direct or through get_client, can fail at any of its steps.             *)

is_authenticated(self) == self.client # None /\ self.credentials # None

reset(self) == [self EXCEPT !.credentials = None, !.client = None]

AuthAuthenticate ==
    /\ authLog.constructed < MaxAuthClients
    /\ \E failure \in AuthFailures :
         LET r == authenticate(auth, failure, Client(authLog.constructed + 1))
         IN  /\ auth' = r.self
             /\ authLog' = [op |-> "authenticate", failure |-> failure,
                            ok |-> r.value[1], value |-> None, before |-> auth,
                            constructed |-> IF r.self.client # auth.client
                                            THEN authLog.constructed + 1
                                            ELSE authLog.constructed]
    /\ UNCHANGED <<earlierVars, secretVars, details, controllerVars, stateVars>>

AuthGetClient ==
    /\ authLog.constructed < MaxAuthClients
    /\ \E failure \in AuthFailures :
         LET r == get_client(auth, failure, Client(authLog.constructed + 1))
         IN  /\ auth' = r.self
             /\ authLog' = [op |-> "get_client", failure |-> failure,
                            ok |-> FALSE, value |-> r.value, before |-> auth,
                            constructed |-> IF r.self.client # auth.client
                                            THEN authLog.constructed + 1
                                            ELSE authLog.constructed]
    /\ UNCHANGED <<earlierVars, secretVars, details, controllerVars, stateVars>>

AuthReset ==
    /\ auth' = reset(auth)
    /\ authLog' = [authLog EXCEPT !.op = "reset", !.failure = "none", !.ok = FALSE,
                                  !.value = None, !.before = auth]
    /\ UNCHANGED <<earlierVars, secretVars, details, controllerVars, stateVars>>

InitAuth ==
    /\ EarlierIdle
    /\ SecretsIdle
    /\ details = None
    /\ LaterIdle

NextAuth ==
    \/ AuthAuthenticate
    \/ AuthGetClient
    \/ AuthReset

SpecAuth == InitAuth /\ [][NextAuth]_vars

----------------------------------------------------------------------------
(* Properties of the service *)

Returned(op) == pc = "returned" /\ call.op = op

RaiseKinds == {"raise_query", "raise_to_dataframe"}

IsEmptyStr(x) == x = PyStr(<<>>)

(* C1: when the warehouse returns zero rows for a non-empty query,         *)
(* run_semantic_search returns (True, "No results found for '<raw_query>'. *)
(* Try a different query.", <empty table>): a success, never an exception. *)
C1_EmptyResultIsSuccess ==
    (Returned("run_semantic_search") /\ response = Returns(<<>>))
    => outcome = Return(<<TRUE,
                          Text("No results found for '" \o Format(call.query)
                               \o "'. Try a different query."),
                          DataFrame(<<>>)>>)

(* C2: no exception crosses the orchestrator boundary: every call of the   *)
(* four operations, for every input and every behaviour of the client,     *)
(* ends by returning its outcome tuple.                                    *)
C2_NoExceptionCrosses ==
    pc = "returned" => outcome.kind = "return"

(* C3: when the client raises an exception with text T during query        *)
(* execution, the failure is returned as data with the operation's prefix  *)
(* and no table.                                                           *)
C3_ExecutionFailureReported ==
    (pc = "returned" /\ response.kind = "raise_query")
    => /\ call.op = "run_semantic_search"
          => outcome = Return(<<FALSE,
                                Text("Vector search failed: " \o response.text),
                                None>>)
       /\ call.op = "perform_grouped_search"
          => outcome = Return(<<None,
                                Text("Grouped search failed: " \o response.text)>>)
       /\ call.op = "get_components_for_uri"
          => outcome = Return(<<None,
                                Text("Detail fetch failed: " \o response.text)>>)

C3_Witness ==
    /\ Returned("run_semantic_search")
    /\ response = Raises("raise_query", "timeout")
    /\ outcome = Return(<<FALSE, Text("Vector search failed: timeout"), None>>)

(* C4: run_semantic_search with the empty string or a non-string raw_query *)
(* returns (False, "Please enter a valid search query.", None) and issues  *)
(* no warehouse call, with or without a client.                            *)
C4_InvalidQueryShortCircuits ==
    (Returned("run_semantic_search")
        /\ (call.query.t # "str" \/ IsEmptyStr(call.query)))
    => /\ outcome = Return(<<FALSE, Text("Please enter a valid search query."),
                             None>>)
       /\ submitted = <<>>
       /\ response = NotAsked

C4_Witness ==
    /\ Returned("run_semantic_search")
    /\ client = BigQueryClient
    /\ call.query = PyInt(7)
    /\ outcome.kind = "return"
    /\ outcome.value[1] = FALSE
    /\ submitted = <<>>

(* C5: no operation retries: a call invokes client.query at most once, and *)
(* when that invocation fails the call ends at once with the failure.      *)
C5_NoRetry ==
    pc = "returned"
    => /\ Len(submitted) <= 1
       /\ response.kind \in RaiseKinds
          => /\ Len(submitted) = 1
             /\ outcome.kind = "return"
             /\ IF call.op = "run_semantic_search"
                THEN outcome.value[1] = FALSE /\ outcome.value[3] = None
                ELSE outcome.value[1] = None /\ outcome.value[2] # None

C5_Witness ==
    /\ Returned("perform_grouped_search")
    /\ response.kind = "raise_query"
    /\ Len(submitted) = 1
    /\ outcome.value[1] = None

(* C6: without a client, perform_vector_search, perform_grouped_search and *)
(* get_components_for_uri return (None, "BigQuery client not available")   *)
(* for every input, empty ones included, and submit nothing;               *)
(* run_semantic_search with a non-empty query returns                      *)
(* (False, "BigQuery client not available", None).                         *)
C6_ClientNotAvailable ==
    (pc = "returned" /\ client = None)
    => /\ submitted = <<>>
       /\ response = NotAsked
       /\ call.op \in {"perform_vector_search", "perform_grouped_search",
                       "get_components_for_uri"}
          => outcome = Return(<<None, Text("BigQuery client not available")>>)
       /\ (call.op = "run_semantic_search" /\ call.query.t = "str"
              /\ call.query.v # <<>>)
          => outcome = Return(<<FALSE, Text("BigQuery client not available"),
                                None>>)

C6_Witness ==
    /\ Returned("perform_grouped_search")
    /\ client = None
    /\ IsEmptyStr(call.query)
    /\ outcome = Return(<<None, Text("BigQuery client not available")>>)

(* C7: with a client, perform_grouped_search rejects an empty sanitized    *)
(* query with (None, "Please enter a valid search query.") and             *)
(* get_components_for_uri rejects an empty sanitized query or an empty     *)
(* sanitized URI with (None, "Invalid query or URI."); neither builds SQL  *)
(* nor invokes client.query.                                               *)
C7_EmptyInputRejected ==
    (pc = "returned" /\ client # None)
    => /\ (call.op = "perform_grouped_search" /\ IsEmptyStr(call.query))
          => /\ outcome = Return(<<None,
                                   Text("Please enter a valid search query.")>>)
             /\ submitted = <<>>
             /\ response = NotAsked
       /\ (call.op = "get_components_for_uri"
              /\ (IsEmptyStr(call.query) \/ IsEmptyStr(call.uri)))
          => /\ outcome = Return(<<None, Text("Invalid query or URI.")>>)
             /\ submitted = <<>>
             /\ response = NotAsked

C7_Witness ==
    /\ Returned("get_components_for_uri")
    /\ client # None
    /\ call.query = PyStr(<<"a">>)
    /\ IsEmptyStr(call.uri)
    /\ outcome = Return(<<None, Text("Invalid query or URI.")>>)

(* C8: when the warehouse returns N >= 1 rows, run_semantic_search returns *)
(* (True, "Found N results for '<raw_query>'.", table): the message embeds *)
(* the raw query, N is the table's row count, and the table is the one the *)
(* warehouse returned, row for row.                                        *)
C8_FoundResults ==
    (Returned("run_semantic_search") /\ response.kind = "table"
        /\ Len(response.rows) >= 1)
    => outcome = Return(<<TRUE,
                          Text("Found " \o ToString(Len(response.rows))
                               \o " results for '" \o Str(call.query.v) \o "'."),
                          DataFrame(response.rows)>>)

C8_Witness ==
    /\ Returned("run_semantic_search")
    /\ call.query = PyStr(<<"a", "'">>)
    /\ Len(response.rows) = 3
    /\ response.rows[1] # response.rows[2]
    /\ outcome.kind = "return"
    /\ outcome.value[2] = Text("Found 3 results for 'a''.")
    /\ outcome.value[3] = DataFrame(response.rows)

----------------------------------------------------------------------------
(* Properties of the sanitizer *)

NumQuotes(s) == Cardinality({i \in 1..Len(s) : s[i] = "'"})

QuotesUpTo(s, i) == Cardinality({j \in 1..i : s[j] = "'"})

(* out is s with a backslash put before each quote and nothing else changed *)
IsEscapeOf(out, s) ==
    /\ Len(out) = Len(s) + NumQuotes(s)
    /\ \A i \in 1..Len(s) :
          /\ out[i + QuotesUpTo(s, i)] = s[i]
          /\ s[i] = "'" => out[i + QuotesUpTo(s, i) - 1] = "\\"

(* the position of the i-th quote of s *)
QuotePos(s, i) == CHOOSE p \in 1..Len(s) : s[p] = "'" /\ QuotesUpTo(s, p) = i

(* the number of consecutive backslashes that end just before position p *)
BackslashRun(s, p) ==
    Cardinality({j \in 1..(p - 1) : \A m \in j..(p - 1) : s[m] = "\\"})

(* C9: sanitize_for_sql is total and equals the reference function: ""     *)
(* for every non-string, and for a string the input with a backslash put   *)
(* before each single quote, every other character unchanged and in order. *)
C9_SanitizeMatchesReference ==
    Len(sanHist) >= 2
    => /\ sanHist[2].t = "str"
       /\ sanIn.t # "str" => sanHist[2].v = <<>>
       /\ sanIn.t = "str" => IsEscapeOf(sanHist[2].v, sanIn.v)

C9_Witness ==
    /\ sanIn = PyStr(<<"'", "a", "'">>)
    /\ Len(sanHist) >= 2
    /\ sanHist[2] = PyStr(<<"\\", "'", "a", "\\", "'">>)

(* C10: sanitize_for_sql is not idempotent on a string with a single       *)
(* quote: each application changes the string and adds exactly one more    *)
(* backslash before every quote; on a string with no quote it is the       *)
(* identity.                                                               *)
C10_SanitizeNotIdempotent ==
    sanIn.t = "str"
    => \A k \in 1..(Len(sanHist) - 1) :
          LET a == sanHist[k].v
              b == sanHist[k + 1].v
          IN  IF NumQuotes(a) = 0
              THEN b = a
              ELSE /\ b # a
                   /\ NumQuotes(b) = NumQuotes(a)
                   /\ Len(b) = Len(a) + NumQuotes(a)
                   /\ \A i \in 1..NumQuotes(a) :
                         BackslashRun(b, QuotePos(b, i))
                            = BackslashRun(a, QuotePos(a, i)) + 1

C10_Witness ==
    /\ sanIn = PyStr(<<"\\", "'">>)
    /\ Len(sanHist) = 4
    /\ sanHist[3] = PyStr(<<"\\", "\\", "\\", "'">>)
    /\ sanHist[4] = PyStr(<<"\\", "\\", "\\", "\\", "'">>)

----------------------------------------------------------------------------
(* Properties of the search results *)

Threshold == call.distance_threshold.v

(* the hits the WHERE clause lets through, out of a candidate set *)
Surviving(C) == {r \in C : r.distance < Threshold}

CandidateSets == vector_search(index, call.top_k.v)

FlatReturned ==
    /\ pc = "returned"
    /\ call.op \in {"perform_vector_search", "run_semantic_search"}
    /\ outcome.kind = "return"

FlatTable ==
    IF call.op = "run_semantic_search" THEN outcome.value[3] ELSE outcome.value[1]

(* C11: every row the flat search returns, through perform_vector_search  *)
(* or run_semantic_search, has a distance strictly below the threshold of *)
(* the call, whatever the index, top_k and threshold.                     *)
C11_FlatRowsBelowThreshold ==
    (FlatReturned /\ FlatTable # None)
    => \A i \in DOMAIN FlatTable.v : FlatTable.v[i].distance < Threshold

(* a flat search returned rows although a candidate sat exactly on the threshold *)
C11_Witness ==
    /\ FlatReturned
    /\ FlatTable # None
    /\ FlatTable.v # <<>>
    /\ call.top_k.v >= Cardinality(index)
    /\ \E r \in index : r.distance = Threshold

GroupedReturned ==
    /\ pc = "returned"
    /\ call.op = "perform_grouped_search"
    /\ outcome.kind = "return"
    /\ outcome.value[1] # None

GroupedTable == outcome.value[1].v

UrisOf(hits) == {r.uri : r \in hits}

DistancesOf(hits, uri) == {r.distance : r \in {h \in hits : h.uri = uri}}

(* C12: the grouped result has one row per distinct URI of the surviving  *)
(* hits, ascending by best_distance, at most patents_limit rows, and when *)
(* more URIs qualify the rows kept are those of smallest best_distance.   *)
C12_GroupedOnePerUriSortedCapped ==
    GroupedReturned
    => \E C \in CandidateSets :
         LET hits == Surviving(C)
             t == GroupedTable
             kept == {t[i].uri : i \in DOMAIN t}
         IN  /\ \A i, j \in DOMAIN t : i # j => t[i].uri # t[j].uri
             /\ kept \subseteq UrisOf(hits)
             /\ Len(t) = Min(call.patents_limit.v, Cardinality(UrisOf(hits)))
             /\ \A i, j \in DOMAIN t : i < j => t[i].best_distance <= t[j].best_distance
             /\ \A i \in DOMAIN t, u \in UrisOf(hits) \ kept :
                   t[i].best_distance <= SetMin(DistancesOf(hits, u))

(* more URIs qualified than patents_limit and the result was cut to it *)
C12_Witness ==
    /\ GroupedReturned
    /\ Len(GroupedTable) = call.patents_limit.v
    /\ call.top_k.v >= Cardinality(index)
    /\ Cardinality(UrisOf(Surviving(index))) > call.patents_limit.v
    /\ \E r \in Surviving(index) : r.distance > GroupedTable[1].best_distance

(* C13: in every grouped row top_components has min(hit_count,            *)
(* per_uri_limit) entries, ascending by distance, and they are the        *)
(* closest surviving hits of the row's URI.                               *)
C13_TopComponentsClosest ==
    GroupedReturned
    => \E C \in CandidateSets :
         \A i \in DOMAIN GroupedTable :
           LET row == GroupedTable[i]
               mine == {ComponentStruct(r) : r \in {h \in Surviving(C) : h.uri = row.uri}}
               listed == Range(row.top_components)
           IN  /\ Len(row.top_components) = Min(row.hit_count, call.per_uri_limit.v)
               /\ Len(row.top_components) <= call.per_uri_limit.v
               /\ AscendingByDistance(row.top_components)
               /\ Cardinality(listed) = Len(row.top_components)
               /\ listed \subseteq mine
               /\ \A x \in listed, y \in mine \ listed : x.distance <= y.distance

(* a URI had more hits than per_uri_limit and its array was cut to it *)
C13_Witness ==
    /\ GroupedReturned
    /\ \E i \in DOMAIN GroupedTable :
         /\ GroupedTable[i].hit_count > call.per_uri_limit.v
         /\ Len(GroupedTable[i].top_components) = call.per_uri_limit.v

(* C14: in every grouped row best_distance is the minimum distance over   *)
(* all surviving hits of the row's URI, the hits hit_count counts, so it  *)
(* does not depend on per_uri_limit, and it is below the threshold.       *)
C14_BestDistanceIsTrueMinimum ==
    GroupedReturned
    => \E C \in CandidateSets :
         \A i \in DOMAIN GroupedTable :
           LET row == GroupedTable[i]
               ds == DistancesOf(Surviving(C), row.uri)
           IN  /\ ds # {}
               /\ row.hit_count = Cardinality({h \in Surviving(C) : h.uri = row.uri})
               /\ row.best_distance = SetMin(ds)
               /\ row.best_distance < Threshold

(* a row whose array was truncated, with a hit farther than the best one left out *)
C14_Witness ==
    /\ GroupedReturned
    /\ \E i \in DOMAIN GroupedTable :
         LET row == GroupedTable[i]
         IN  /\ row.hit_count > Len(row.top_components)
             /\ \E r \in index : r.uri = row.uri /\ r.distance > row.best_distance
                                 /\ r.distance < Threshold

PerformOps == {"perform_vector_search", "perform_grouped_search", "get_components_for_uri"}

(* C15: with a threshold of zero or less and distances within [0, 2], a   *)
(* flat, grouped or detail query the warehouse executes has no rows, and  *)
(* the perform operation returns the empty table with no error.           *)
C15_NonPositiveThresholdGivesEmptyTable ==
    (/\ pc = "returned"
     /\ call.op \in PerformOps
     /\ Threshold <= 0
     /\ response.kind = "table")
    => /\ response.rows = <<>>
       /\ outcome = Return(<<DataFrame(<<>>), None>>)

(* a threshold of zero against an index holding a hit at distance zero *)
C15_Witness ==
    /\ pc = "returned"
    /\ call.op \in PerformOps
    /\ Threshold = 0
    /\ response.kind = "table"
    /\ \E r \in index : r.distance = 0
    /\ outcome = Return(<<DataFrame(<<>>), None>>)

DetailReturned ==
    /\ pc = "returned"
    /\ call.op = "get_components_for_uri"
    /\ outcome.kind = "return"
    /\ outcome.value[1] # None

(* C16: the detail search returns exactly the candidates whose uri equals *)
(* the requested uri and whose distance is below the threshold, all of    *)
(* them, ascending by distance.                                           *)
C16_DetailExactUri ==
    DetailReturned
    => \E C \in CandidateSets :
         LET t == outcome.value[1].v
         IN  /\ Range(t) = {r \in Surviving(C) : r.uri = call.requested_uri.v}
             /\ Len(t) = Cardinality(Range(t))
             /\ AscendingByDistance(t)

----------------------------------------------------------------------------
(* Properties of the result formatter *)

DisplayColumns == <<"Patent URI", "Component", "Function", "Similarity">>

(* s is (1 - distance) * 100 rounded to a whole number, a half to the even one *)
IsRounded(s, distance) ==
    LET diff == 10 * s - (1000 - distance)
    IN  /\ diff >= -5
        /\ diff <= 5
        /\ (diff = 5 \/ diff = -5) => s % 2 = 0

(* C18: _format_search_results gives one row per input row, in order,     *)
(* with exactly the columns Patent URI, Component, Function, Similarity,  *)
(* Similarity the rounded whole number of (1 - distance) * 100 (0.2 gives *)
(* 80, 1.0 gives 0, 0.0 gives 100), no distance column, and leaves the    *)
(* table it was handed as it was.                                         *)
C18_FormatSearchResults ==
    formatted # None
    => LET df == formatted.df
           out == formatted.display_df
       IN  /\ formatIn = df
           /\ out.columns = DisplayColumns
           /\ Len(out.v) = Len(df.v)
           /\ \A i \in DOMAIN df.v :
                /\ DOMAIN out.v[i] = Range(DisplayColumns)
                /\ out.v[i]["Patent URI"] = df.v[i].uri
                /\ out.v[i]["Component"] = df.v[i].component_name
                /\ out.v[i]["Function"] = df.v[i].component_function
                /\ IsRounded(out.v[i]["Similarity"], df.v[i].distance)
                /\ df.v[i].distance = 200 => out.v[i]["Similarity"] = 80
                /\ df.v[i].distance = 1000 => out.v[i]["Similarity"] = 0
                /\ df.v[i].distance = 0 => out.v[i]["Similarity"] = 100

(* two rows formatted, one of them halfway between two whole numbers *)
C18_Witness ==
    /\ formatted # None
    /\ Len(formatted.df.v) = 2
    /\ formatted.df.v[1].distance = 125
    /\ formatted.display_df.v[1]["Similarity"] = 88
    /\ formatted.df.v[2].distance = 200
    /\ formatted.display_df.v[2]["Similarity"] = 80

----------------------------------------------------------------------------
(* Properties of the client cache *)

ReturnedClients ==
    {sess[s].ret : s \in {x \in Sessions : sess[x].pc = "returned" /\ sess[x].ret # None}}

(* C19: while every get_bigquery_client call uses the cache and the cache *)
(* has not been reset, at most one client has been constructed and the    *)
(* calls that returned a client all returned the same one.                *)
C19_ClientCreatedOnce ==
    (~wasReset /\ ~anyUncached)
    => /\ constructed <= 1
       /\ Cardinality(ReturnedClients) <= 1

----------------------------------------------------------------------------
(* Properties of the orchestrator's classification step *)

(* how run_semantic_search ends when the vector search is all it does *)
VectorSearchOnlyOutcome ==
    IF response.kind # "table"
    THEN Return(<<FALSE, Text("Vector search failed: " \o response.text), None>>)
    ELSE IF response.rows = <<>>
    THEN no_results_return(call.query, DataFrame(<<>>))
    ELSE Return(<<TRUE,
                  Text("Found " \o ToString(Len(response.rows)) \o " results for '"
                       \o Format(call.query) \o "'."),
                  DataFrame(response.rows)>>)

----------------------------------------------------------------------------
(* Properties of the candidate pool *)

RECURSIVE SumHitCount(_)
SumHitCount(t) == IF t = <<>> THEN 0 ELSE Head(t).hit_count + SumHitCount(Tail(t))

(* fewer than top_k rows of the index are strictly nearer than distance d *)
AmongNearest(d) ==
    Cardinality({o \in index : o.distance < d}) < call.top_k.v

(* C21: top_k bounds the candidates before the distance filter: the flat  *)
(* and the detail search return at most top_k rows, the hit_counts of the *)
(* grouped search sum to at most top_k, and no returned hit lies outside  *)
(* the top_k nearest rows of the index.                                   *)
C21_TopKBoundsCandidates ==
    /\ (FlatReturned /\ FlatTable # None)
       => /\ Len(FlatTable.v) <= call.top_k.v
          /\ \A i \in DOMAIN FlatTable.v : AmongNearest(FlatTable.v[i].distance)
    /\ DetailReturned
       => /\ Len(outcome.value[1].v) <= call.top_k.v
          /\ \A i \in DOMAIN outcome.value[1].v :
                AmongNearest(outcome.value[1].v[i].distance)
    /\ GroupedReturned
       => /\ SumHitCount(GroupedTable) <= call.top_k.v
          /\ \A i \in DOMAIN GroupedTable :
               \A j \in DOMAIN GroupedTable[i].top_components :
                  AmongNearest(GroupedTable[i].top_components[j].distance)

(* a grouped search over every URI of an index with more rows below the   *)
(* threshold than top_k counted exactly top_k hits                        *)
C21_Witness ==
    /\ GroupedReturned
    /\ call.patents_limit.v >= Cardinality(UrisOf(index))
    /\ Cardinality(Surviving(index)) > call.top_k.v
    /\ SumHitCount(GroupedTable) = call.top_k.v

----------------------------------------------------------------------------
(* Properties of the secret source *)

SameIgnoringCase(x, word) ==
    /\ Len(x.v) = Len(word)
    /\ \A i \in DOMAIN x.v : LowerChar(x.v[i]) = word[i]

(* the environment name that decides: the argument if given, else APP_ENV *)
EffectiveEnv == Or(saCall.app_env, get_app_env(environ, secrets))

(* the service-account JSON the secrets yield, None if they yield none *)
SecretsJson ==
    LET d == get_sa_dict_from_secrets(secrets)
    IN  IF d # None /\ DOMAIN d.v # {} THEN Text(json_dumps(d.v)) ELSE None

EnvJsonSet == environ.GCP_SA_KEY # None /\ environ.GCP_SA_KEY # Text("")

(* C22: get_gcp_sa_json follows the documented precedence: under 'prod' or *)
(* 'production', in any letter case, the secrets' JSON if there is one and *)
(* else the GCP_SA_KEY environment value; under any other environment the  *)
(* environment value if non-empty and else the secrets' JSON; None only    *)
(* when neither source has a value.                                        *)
C22_SecretPrecedence ==
    saCall # None
    => LET prod == \/ SameIgnoringCase(EffectiveEnv, Prod)
                   \/ SameIgnoringCase(EffectiveEnv, Production)
       IN  /\ prod => saCall.value = (IF SecretsJson # None THEN SecretsJson
                                      ELSE environ.GCP_SA_KEY)
           /\ ~prod => saCall.value = (IF EnvJsonSet THEN environ.GCP_SA_KEY
                                       ELSE SecretsJson)
           /\ saCall.value = None => (SecretsJson = None /\ ~EnvJsonSet)

(* APP_ENV=PROD in capitals, both sources present: the secrets' JSON wins *)
C22_Witness ==
    /\ saCall # None
    /\ saCall.app_env = None
    /\ environ.APP_ENV = PyStr(<<"P", "R", "O", "D">>)
    /\ EnvJsonSet
    /\ SecretsJson # None
    /\ saCall.value = SecretsJson

----------------------------------------------------------------------------
(* Properties of the cache discipline *)

(* session s enters get_bigquery_client in this step *)
CallStarts(s) == sess[s].pc = "idle" /\ sess'[s].pc # "idle"

(* session s leaves get_bigquery_client through lines 120-122 in this step *)
CallEnds(s) == sess[s].pc = "storing" /\ sess'[s].pc = "returned"

CacheDisciplineStep(s) ==
    /\ CallStarts(s)
       => IF sess'[s].use_cache /\ cached # None
          THEN /\ sess'[s].pc = "returned"
               /\ sess'[s].ret = cached
               /\ constructed' = constructed
               /\ cached' = cached
          ELSE /\ sess'[s].pc = "authenticating"
               /\ cached' = cached
    /\ CallEnds(s)
       => /\ sess'[s].ret = sess[s].client
          /\ (sess[s].client = None \/ ~sess[s].use_cache) => cached' = cached
          /\ (sess[s].client # None /\ sess[s].use_cache) => cached' = sess[s].client
    /\ (sess[s].pc = "authenticating" /\ sess'[s].pc = "storing") => cached' = cached

(* C23: a failed authentication is never stored, so with the cache empty   *)
(* a call authenticates (again); a call with use_cache=False neither reads *)
(* nor writes the cache; after a reset the next caching call authenticates *)
(* again; and with the cache filled a caching call returns the cached      *)
(* client without authenticating.                                          *)
C23_CacheDiscipline == [][\A s \in Sessions : CacheDisciplineStep(s)]_vars

(* after a reset that emptied a filled cache, a caching call authenticates again *)
C23_Witness ==
    /\ wasReset
    /\ cached = None
    /\ constructed >= 1
    /\ \E s \in Sessions : sess[s].pc = "authenticating" /\ sess[s].use_cache

----------------------------------------------------------------------------
(* Properties of the grouped and the detail view together *)

DetailRows == details.out.value[1].v

(* C24: for a URI of the grouped result, the detail search with the same   *)
(* query, threshold and top_k returns hit_count rows, the first at         *)
(* best_distance, and top_components is the detail rows' prefix of length  *)
(* min(hit_count, per_uri_limit), up to ties in distance.                  *)
C24_GroupedAndDetailAgree ==
    details # None
    => /\ details.out.kind = "return"
       /\ details.out.value[1] # None
       /\ Len(DetailRows) = details.row.hit_count
       /\ DetailRows # <<>>
       /\ DetailRows[1].distance = details.row.best_distance
       /\ Len(details.row.top_components)
            = Min(details.row.hit_count, call.per_uri_limit.v)
       /\ \A j \in DOMAIN details.row.top_components :
            /\ j \in DOMAIN DetailRows
            /\ details.row.top_components[j].distance = DetailRows[j].distance
            /\ details.row.top_components[j]
                 \in {ComponentStruct(DetailRows[k]) : k \in DOMAIN DetailRows}

----------------------------------------------------------------------------
(* Properties of the controller *)

IsSearchSql(sql) == sql # ProbeSql

(* C25: every SearchResult of search_patents has a similarity within       *)
(* [0, 100], and in fact within [20, 100]: the flat search runs with the   *)
(* default distance_threshold, so no distance of 0.8 or more survives.     *)
C25_SimilarityWithinRange ==
    Returned("search_patents")
    => \A i \in DOMAIN outcome.value[1].results :
         /\ outcome.value[1].results[i].similarity \in 0..100
         /\ outcome.value[1].results[i].similarity \in 20..100

(* a search on an index that holds a row beyond distance 1.0 and returns rows *)
C25_Witness ==
    /\ Returned("search_patents")
    /\ outcome.value[1].success
    /\ outcome.value[1].results # <<>>
    /\ \E row \in index : row.distance > 1000
    /\ \E i \in DOMAIN outcome.value[1].results :
         outcome.value[1].results[i].similarity = 50

Searched(sqls) == \E i \in DOMAIN sqls : IsSearchSql(sqls[i])

NotAvailableOutcome(c) ==
    Return(IF c.op = "search_patents"
           THEN <<SearchResponse(FALSE, ServiceNotAvailable, <<>>, c.query)>>
           ELSE <<FALSE, ServiceNotAvailable, None>>)

ControllerCallStep ==
    (pc = "idle" /\ pc' = "returned")
    => LET had == controller.semantic_search_service # None
           has == controller'.semantic_search_service # None
       IN  /\ Searched(submitted')
              => /\ probed.injected \/ probed'.ok
                 /\ had \/ (probed'.last_ok /\ submitted'[1] = ProbeSql)
           /\ ~had => probed'.last = 1
           /\ (~had /\ ~probed'.last_ok) => ~has
           /\ (~had /\ ~has)
              => /\ outcome' = NotAvailableOutcome(call')
                 /\ ~Searched(submitted')
           /\ had
              => /\ controller' = controller
                 /\ probed'.last = 0
                 /\ \A i \in DOMAIN submitted' : submitted'[i] # ProbeSql

(* C26: a search query is submitted only if a service was injected or a   *)
(* probe of this controller has succeeded; without a service a call       *)
(* probes, and when the probe fails or no client is obtained it returns   *)
(* "Semantic search service not available", submits no search query and   *)
(* caches no service; a service once held is reused without a probe.      *)
C26_SearchOnlyBehindProbe == [][ControllerCallStep]_vars

(* a service built after a successful probe serves a later call unprobed *)
C26_Witness ==
    /\ pc = "returned"
    /\ ~probed.injected
    /\ probed.ok
    /\ probed.last = 0
    /\ Searched(submitted)

----------------------------------------------------------------------------
(* Properties of the state manager *)

StateManagerInv ==
    /\ is_overview_mode(state) = ~is_search_triggered(state)
    /\ is_search_triggered(state) = (latest.op = "trigger_search")
    /\ latest.op = "trigger_search" => get_search_query(state) = latest.query
    /\ is_overview_mode(state) => get_search_query(state) = PyStr(<<>>)

StateManagerStep ==
    /\ latest'.called = "set_search_input"
       => state' = [state EXCEPT !.search_input = state'.search_input]
    /\ latest'.called \in {"trigger_search", "reset_search"}
       => get_search_input(state') = get_search_input(state)

(* C27: overview mode is the negation of search mode; search is triggered *)
(* exactly when the latest of trigger_search/reset_search was a           *)
(* trigger_search, whose argument is then the search query; the query is  *)
(* "" in overview mode; set_search_input changes search_input only, and   *)
(* trigger_search/reset_search leave search_input alone.                  *)
C27_StateManager == []StateManagerInv /\ [][StateManagerStep]_vars

(* back in overview mode after a search, with a search input typed in *)
C27_Witness ==
    /\ latest.op = "reset_search"
    /\ latest.called = "set_search_input"
    /\ get_search_input(state) # PyStr(<<>>)
    /\ is_overview_mode(state)

----------------------------------------------------------------------------
(* Properties of the dashboard engine *)

DashboardInv ==
    is_search_triggered(state) => get_search_query(state) # PyStr(<<>>)

DashboardStep ==
    /\ Len(lastRun'.calls) <= 1
    /\ \A i \in DOMAIN lastRun'.calls :
         /\ lastRun'.calls[i].op = "trigger_search"
         /\ lastRun'.calls[i].query = lastRun'.search_actions.query
         /\ lastRun'.search_actions.search_clicked
         /\ lastRun'.search_actions.query # PyStr(<<>>)
         /\ is_search_triggered(state)
            => lastRun'.search_actions.query # get_search_query(state)
    /\ state' = IF lastRun'.calls = <<>> THEN state
                ELSE trigger_search(state, lastRun'.calls[1].query)
    /\ is_search_triggered(state) => is_search_triggered(state')

(* C28: a run calls trigger_search(q) only when the UI reports a click    *)
(* with a non-empty q, and in search mode only when q also differs from   *)
(* the current search query; it never calls reset_search, so search mode  *)
(* once entered is kept and the stored search query is never empty there. *)
C28_DashboardModes == []DashboardInv /\ [][DashboardStep]_vars

(* in search mode, a click with another query has triggered a new search *)
C28_Witness ==
    /\ lastRun # None
    /\ lastRun.mode = "search"
    /\ lastRun.calls # <<>>
    /\ get_search_query(state) # lastRun.query

----------------------------------------------------------------------------
(* Properties of the orchestrator's input check *)

InputRejected ==
    outcome = Return(<<FALSE, Text("Please enter a valid search query."), None>>)

(* C29: run_semantic_search rejects exactly the raw queries whose          *)
(* sanitized form is empty, which are the non-strings and ""; a rejected   *)
(* call submits nothing, and any other query, one of whitespace only       *)
(* included, makes a configured client receive exactly one query, the      *)
(* vector search for the sanitized text.                                   *)
C29_RejectsExactlyEmptySanitized ==
    Returned("run_semantic_search")
    => LET sanitized_query == sanitize_for_sql(call.query)
       IN  /\ InputRejected <=> IsEmptyStr(sanitized_query)
           /\ IsEmptyStr(sanitized_query)
              <=> (call.query.t # "str" \/ IsEmptyStr(call.query))
           /\ InputRejected => submitted = <<>>
           /\ (~InputRejected /\ client # None)
              => submitted = <<build_vector_search_query(sanitized_query,
                                                         call.distance_threshold,
                                                         call.top_k)>>

(* a query of one blank went to the warehouse *)
C29_Witness ==
    /\ Returned("run_semantic_search")
    /\ call.query = PyStr(<<" ">>)
    /\ client # None
    /\ Len(submitted) = 1
    /\ ~InputRejected

----------------------------------------------------------------------------
(* Properties of one GCPAuth object *)

AuthInv ==
    /\ auth.client # None => auth.credentials # None
    /\ is_authenticated(auth) <=> auth.client # None

AuthStep ==
    /\ authLog'.op = "get_client"
       => /\ auth.client # None
             => /\ auth' = auth
                /\ authLog'.value = auth.client
                /\ authLog'.constructed = authLog.constructed
          /\ (auth.client = None /\ authLog'.failure # "none")
             => /\ authLog'.value = None
                /\ auth'.client = None
          /\ (auth.client = None /\ authLog'.failure = "none")
             => /\ authLog'.value # None
                /\ authLog'.value = auth'.client
    /\ authLog'.op = "authenticate"
       => /\ authLog'.ok <=> authLog'.failure = "none"
          /\ ~authLog'.ok => auth'.client = auth.client
    /\ authLog'.op = "reset" => auth' = GCPAuth

(* C30: a GCPAuth object with a client has credentials, so that           *)
(* is_authenticated() says whether there is a client; get_client()        *)
(* authenticates only when there is no client and returns None when that  *)
(* fails; a failed authenticate() leaves the client as it was; reset()    *)
(* clears both fields.                                                    *)
C30_ClientImpliesCredentials == []AuthInv /\ [][AuthStep]_vars

(* authenticate() failed at the client's creation with a client in place *)
C30_Witness ==
    /\ authLog.op = "authenticate"
    /\ authLog.failure = "create_bigquery_client"
    /\ authLog.before.client # None
    /\ auth.client = authLog.before.client

============================================================================
